---- MODULE Spec2Model ----
(***************************************************************************)
(* A model of access-hood: the digest utility, the storage key derivation, *)
(* the local persistence gate (readIsAuthed / writeAuthed with its         *)
(* in-memory cache) and the remote verification client                     *)
(* (verifyPasswordRemotely).                                               *)
(*                                                                         *)
(* A JavaScript string is modelled as the sequence of its UTF-16 code      *)
(* units (naturals below 65536).  A 32-bit unsigned word is modelled as a  *)
(* pair <<hi, lo>> of 16-bit halves, because the checker's integers are    *)
(* 32-bit signed.                                                          *)
(***************************************************************************)
EXTENDS Integers, Sequences, FiniteSets, TLC

(***************************************************************************)
(* Part 1.  Strings and 32-bit words                                       *)
(***************************************************************************)

\* 2^16: the size of one half of a 32-bit word.
Half == 256 * 256

RECURSIVE Pow2(_)
Pow2(n) == IF n = 0 THEN 1 ELSE 2 * Pow2(n - 1)

Min(a, b) == IF a < b THEN a ELSE b

\* String.prototype.slice(from, to) for 0 <= from <= to (0-based, to exclusive).
Slice(s, from, to) == SubSeq(s, from + 1, Min(to, Len(s)))

RECURSIVE Repeat(_, _)
Repeat(c, n) == IF n <= 0 THEN <<>> ELSE <<c>> \o Repeat(c, n - 1)

\* String.prototype.padStart(targetLength, padChar) with a one-character pad.
PadStart(s, targetLength, padChar) == Repeat(padChar, targetLength - Len(s)) \o s

\* The character code of one lowercase hex digit, 0..15 -> "0".."9","a".."f".
HexDigit(d) == IF d < 10 THEN 48 + d ELSE 87 + d

\* Number.prototype.toString(16) of a natural below 2^16: no leading zeros.
RECURSIVE ToString16(_)
ToString16(n) ==
    IF n < 16 THEN <<HexDigit(n)>>
    ELSE ToString16(n \div 16) \o <<HexDigit(n % 16)>>

\* Number.prototype.toString(16) of the 32-bit word <<hi, lo>>.
WordToString16(w) ==
    IF w[1] = 0 THEN ToString16(w[2])
    ELSE ToString16(w[1]) \o PadStart(ToString16(w[2]), 4, 48)

(***************************************************************************)
(* Part 2.  The digest utility (hashString)                                *)
(***************************************************************************)

\* The multiplier of the fallback rolling hash.
RollMul == 31

\* One step of the fallback loop: acc = (acc * 31 + charCode) >>> 0.
RollStepNoWrap(acc, c) ==
    LET lo == acc[2] * RollMul + c
        hi == acc[1] * RollMul + (lo \div Half)
    IN  <<Min(hi, Half - 1), lo % Half>>

RollStep(acc, c) ==
    LET lo == acc[2] * RollMul + c
        hi == acc[1] * RollMul + (lo \div Half)
    IN  <<hi % Half, lo % Half>>

\* The fallback loop over input[i..], from the accumulator acc.
RECURSIVE RollFrom(_, _, _)
RollFrom(input, i, acc) ==
    IF i > Len(input) THEN acc
    ELSE RollFrom(input, i + 1, RollStep(acc, input[i]))

\* The width the fallback digest is zero-padded to.
FallbackHexLen == 8

\* The fallback branch of hashString: 8 lowercase hex characters.
FallbackHash(input) ==
    PadStart(WordToString16(RollFrom(input, 1, <<0, 0>>)), FallbackHexLen, 48)

(***************************************************************************)
(* SHA-256 (FIPS 180-4), the digest window.crypto.subtle computes, over    *)
(* the UTF-8 bytes TextEncoder produces.                                   *)
(***************************************************************************)

\* The surrogate code units of UTF-16.
IsHighSurrogate(c) == 55296 <= c /\ c <= 56319
IsLowSurrogate(c) == 56320 <= c /\ c <= 57343

\* TextEncoder.encode of one code unit taken alone: 1, 2 or 3 bytes, and
\* U+FFFD (EF BF BD) in place of a surrogate without its partner.
Utf8Char(c) ==
    IF IsHighSurrogate(c) \/ IsLowSurrogate(c) THEN <<239, 191, 189>>
    ELSE IF c < 128 THEN <<c>>
    ELSE IF c < 2048 THEN <<192 + (c \div 64), 128 + (c % 64)>>
    ELSE <<224 + (c \div 4096), 128 + ((c \div 64) % 64), 128 + (c % 64)>>

\* TextEncoder.encode of a surrogate pair: the 4 bytes of its code point.
Utf8Pair(hi, lo) ==
    LET cp == 65536 + (hi - 55296) * 1024 + (lo - 56320)
    IN  <<240 + (cp \div 262144), 128 + ((cp \div 4096) % 64),
          128 + ((cp \div 64) % 64), 128 + (cp % 64)>>

\* TextEncoder.encode of a string.
RECURSIVE Utf8Encode(_)
Utf8Encode(s) ==
    IF s = <<>> THEN <<>>
    ELSE IF Len(s) >= 2 /\ IsHighSurrogate(s[1]) /\ IsLowSurrogate(s[2])
    THEN Utf8Pair(s[1], s[2]) \o Utf8Encode(SubSeq(s, 3, Len(s)))
    ELSE Utf8Char(Head(s)) \o Utf8Encode(Tail(s))

RECURSIVE Xor16(_, _, _)
Xor16(a, b, n) ==
    IF n = 0 THEN 0
    ELSE ((a + b) % 2) + 2 * Xor16(a \div 2, b \div 2, n - 1)

RECURSIVE And16(_, _, _)
And16(a, b, n) ==
    IF n = 0 THEN 0
    ELSE ((a % 2) * (b % 2)) + 2 * And16(a \div 2, b \div 2, n - 1)

Xor32(x, y) == <<Xor16(x[1], y[1], 16), Xor16(x[2], y[2], 16)>>
And32(x, y) == <<And16(x[1], y[1], 16), And16(x[2], y[2], 16)>>
Not32(x) == <<Half - 1 - x[1], Half - 1 - x[2]>>

Add32(x, y) ==
    LET lo == x[2] + y[2]
        hi == x[1] + y[1] + (lo \div Half)
    IN  <<hi % Half, lo % Half>>

\* Rotate right by n, 0 < n < 32.
Rotr32(x, n) ==
    LET y == IF n >= 16 THEN <<x[2], x[1]>> ELSE x
        m == n % 16
        p == Pow2(m)
        q == Pow2(16 - m)
    IN  IF m = 0 THEN y
        ELSE <<(y[1] \div p) + (y[2] % p) * q, (y[2] \div p) + (y[1] % p) * q>>

\* Shift right by n, 0 < n < 16.
Shr32(x, n) ==
    LET p == Pow2(n)
        q == Pow2(16 - n)
    IN  <<x[1] \div p, (x[2] \div p) + (x[1] % p) * q>>

ShaK ==
    <<
       <<17034, 12184>>, <<28983, 17553>>, <<46528, 64463>>, <<59829, 56229>>,
       <<14678, 49755>>, <<23025, 4593>>, <<37439, 33444>>, <<43804, 24277>>,
       <<55303, 43672>>, <<4739, 23297>>, <<9265, 34238>>, <<21772, 32195>>,
       <<29374, 23924>>, <<32990, 45566>>, <<39900, 1703>>, <<49563, 61812>>,
       <<58523, 27073>>, <<61374, 18310>>, <<4033, 40390>>, <<9228, 41420>>,
       <<11753, 11375>>, <<19060, 33962>>, <<23728, 43484>>, <<30457, 35034>>,
       <<38974, 20818>>, <<43057, 50797>>, <<45059, 10184>>, <<48985, 32711>>,
       <<50912, 3059>>, <<54695, 37191>>, <<1738, 25425>>, <<5161, 10599>>,
       <<10167, 2693>>, <<11803, 8504>>, <<19756, 28156>>, <<21304, 3347>>,
       <<25866, 29524>>, <<30314, 2747>>, <<33218, 51502>>, <<37490, 11397>>,
       <<41663, 59553>>, <<43034, 26187>>, <<49739, 35696>>, <<51052, 20899>>,
       <<53650, 59417>>, <<54937, 1572>>, <<62478, 13701>>, <<4202, 41072>>,
       <<6564, 49430>>, <<7735, 27656>>, <<10056, 30540>>, <<13488, 48309>>,
       <<14620, 3251>>, <<20184, 43594>>, <<23452, 51791>>, <<26670, 28659>>,
       <<29839, 33518>>, <<30885, 25455>>, <<33992, 30740>>, <<36039, 520>>,
       <<37054, 65530>>, <<42064, 27883>>, <<48889, 41975>>, <<50801, 30962>>
    >>

ShaH0 ==
    <<
       <<27145, 58983>>, <<47975, 44677>>, <<15470, 62322>>, <<42319, 62778>>,
       <<20750, 21119>>, <<39685, 26764>>, <<8067, 55723>>, <<23520, 52505>>
    >>

\* The padded message: the bytes, 0x80, zeros, and the bit length in 64 bits
\* (inputs here are far below 2^13 bytes, so only the low 16 bits are set).
ShaPad(bytes) ==
    LET n == Len(bytes)
        zeros == (119 - n) % 64
        bits == n * 8
    IN  bytes \o <<128>> \o Repeat(0, zeros) \o Repeat(0, 6)
              \o <<bits \div 256, bits % 256>>

\* The 16 message words of block b (0-based) of the padded message.
ShaBlockWords(padded, b) ==
    [t \in 1..16 |->
        LET o == b * 64 + (t - 1) * 4
        IN  <<padded[o + 1] * 256 + padded[o + 2],
              padded[o + 3] * 256 + padded[o + 4]>>]

\* The message schedule extended from 16 to 64 words.
RECURSIVE ShaSchedule(_)
ShaSchedule(w) ==
    IF Len(w) = 64 THEN w
    ELSE LET t == Len(w) + 1
             w15 == w[t - 15]
             w2 == w[t - 2]
             s0 == Xor32(Xor32(Rotr32(w15, 7), Rotr32(w15, 18)), Shr32(w15, 3))
             s1 == Xor32(Xor32(Rotr32(w2, 17), Rotr32(w2, 19)), Shr32(w2, 10))
         IN  ShaSchedule(
                 Append(w, Add32(Add32(w[t - 16], s0), Add32(w[t - 7], s1))))

\* Rounds t..64 of the compression function on the working state v = a..h.
RECURSIVE ShaRounds(_, _, _)
ShaRounds(v, w, t) ==
    IF t > 64 \/ Len(v) # 8 THEN v
    ELSE LET a == v[1]
             e == v[5]
             S1 == Xor32(Xor32(Rotr32(e, 6), Rotr32(e, 11)), Rotr32(e, 25))
             ch == Xor32(And32(e, v[6]), And32(Not32(e), v[7]))
             t1 == Add32(Add32(Add32(v[8], S1), Add32(ch, ShaK[t])), w[t])
             S0 == Xor32(Xor32(Rotr32(a, 2), Rotr32(a, 13)), Rotr32(a, 22))
             maj == Xor32(Xor32(And32(a, v[2]), And32(a, v[3])),
                          And32(v[2], v[3]))
             t2 == Add32(S0, maj)
         IN  ShaRounds(<<Add32(t1, t2), a, v[2], v[3],
                         Add32(v[4], t1), e, v[6], v[7]>>, w, t + 1)

RECURSIVE ShaBlocks(_, _, _)
ShaBlocks(padded, b, h) ==
    IF b * 64 >= Len(padded) THEN h
    ELSE LET v == ShaRounds(h, ShaSchedule(ShaBlockWords(padded, b)), 1)
         IN  ShaBlocks(padded, b + 1, [i \in 1..8 |-> Add32(h[i], v[i])])

\* The 32 digest bytes.
RECURSIVE WordsToBytes(_)
WordsToBytes(ws) ==
    IF ws = <<>> THEN <<>>
    ELSE LET x == Head(ws)
         IN  <<x[1] \div 256, x[1] % 256, x[2] \div 256, x[2] % 256>>
                 \o WordsToBytes(Tail(ws))

Sha256(bytes) == WordsToBytes(ShaBlocks(ShaPad(bytes), 0, ShaH0))

\* toHex: every byte as two lowercase hex characters.
RECURSIVE ToHex(_)
ToHex(bytes) ==
    IF bytes = <<>> THEN <<>>
    ELSE PadStart(ToString16(Head(bytes)), 2, 48) \o ToHex(Tail(bytes))

\* hashString(input) in a runtime where subtle says whether
\* window.crypto.subtle exists (FALSE also stands for "no window").
HashString(input, subtle) ==
    IF subtle THEN ToHex(Sha256(Utf8Encode(input))) ELSE FallbackHash(input)

(***************************************************************************)
(* Part 3.  Storage key derivation                                         *)
(***************************************************************************)

\* STORAGE_SALT = "ah_salt_v1"
STORAGE_SALT == <<97, 104, 95, 115, 97, 108, 116, 95, 118, 49>>

\* The number of digest characters kept in the key and in the value.
KeyHexLen == 24
ValueHexLen == 16

\* deriveStorageKey: `k_${h.slice(0, 24)}` with h = hashString(`key:${id}:${SALT}`)
DeriveStorageKeyShort(password, subtle) ==
    LET h == HashString(<<107, 101, 121, 58>> \o password \o <<58>> \o STORAGE_SALT,
                        subtle)
    IN  <<107, 95>> \o Slice(h, 0, ValueHexLen)

DeriveStorageKey(password, subtle) ==
    LET h == HashString(<<107, 101, 121, 58>> \o password \o <<58>> \o STORAGE_SALT,
                        subtle)
    IN  <<107, 95>> \o Slice(h, 0, KeyHexLen)

\* deriveStorageValue: `v_${h.slice(0, 16)}` with h = hashString(`val:${id}:${SALT}`)
DeriveStorageValue(password, subtle) ==
    LET h == HashString(<<118, 97, 108, 58>> \o password \o <<58>> \o STORAGE_SALT,
                        subtle)
    IN  <<118, 95>> \o Slice(h, 0, ValueHexLen)

\* getAuthKeyAndValue: the pair of the two derivations.
GetAuthKeyAndValue(password, subtle) ==
    [key |-> DeriveStorageKey(password, subtle),
     value |-> DeriveStorageValue(password, subtle)]

(***************************************************************************)
(* Part 4.  The local persistence gate, password-keyed (Map cache) variant *)
(***************************************************************************)

\* How many readIsAuthed / writeAuthed calls one behaviour starts.
MaxCalls == 4

\* The passwords of the model: "Aa" and "BB" have the same fallback digests
\* (key and value); "aBtjifj" has the fallback key of "Aa" and another value.
Ids == { <<65, 97>>, <<66, 66>>, <<97, 66, 116, 106, 105, 102, 106>> }

\* The derived pairs of the model's passwords, computed once.
PairTable ==
    { <<s, i, GetAuthKeyAndValue(i, s)>> : s \in BOOLEAN, i \in Ids }

PairOf(i, s) == (CHOOSE t \in PairTable : t[1] = s /\ t[2] = i)[3]

VARIABLES
    hasWindow,      \* typeof window !== "undefined"
    hasSubtle,      \* window.crypto?.subtle is there
    initStore,      \* the persistent store as the page found it
    localStorage,   \* the persistent store: a set of <<key, value>>, one per key
    authedCache,    \* the Map: password -> "true" | "false" | "undefined" (absent)
    pending,        \* the calls suspended at their await, in start order
    returned,       \* the calls that have returned, each with what it did
    started         \* how many calls have been started

gateVars ==
    <<hasWindow, hasSubtle, initStore, localStorage, authedCache, pending,
      returned, started>>

\* The state of the remote verification client (Part 6).
VARIABLES
    variant,        \* which shape of the client is loaded
    hasAbort,       \* typeof AbortController !== "undefined"
    currentConfig,  \* the module-level configuration
    configChanges,  \* the arguments of the setConfig calls made, in order
    vcalls,         \* how many verifyPasswordRemotely calls were started
    vpc,            \* per call: "idle" | "fetching" | "parsing" | "returned"
    vconfig,        \* per call: the configuration it found when it started
    vresult,        \* per call: the value it returned
    timer,          \* per call: its timeout timer
    controller,     \* per call: "none" (undefined) | "fresh" | "aborted"
    requests,       \* per call: the requests it has issued
    netPlan,        \* per call: "settles" | "never", whether fetch settles on its own
    response,       \* per call: what fetch settled with
    bodyRead        \* per call: response.json() was called

verifyVars ==
    <<variant, hasAbort, currentConfig, configChanges, vcalls, vpc, vconfig,
      vresult, timer, controller, requests, netPlan, response, bodyRead>>

\* The state of one hashString call and of the getAuthKeyAndValue calls for
\* one identifier (Part 6c).
VARIABLES
    hashInput,      \* the argument of the hashString call
    hashOutput,     \* what the call resolved to: Undefined before it
    identifier,     \* the argument of the getAuthKeyAndValue calls
    pairs           \* what the calls resolved to, in order

pureVars == <<hashInput, hashOutput, identifier, pairs>>

\* The state of one AccessHood component on the page (Part 6d).
VARIABLES
    uiVariant,      \* which shape of the component is loaded
    events,         \* how many things have happened to the component
    mounted,        \* the component is mounted
    passwordProp,   \* the password prop of the last render
    pwd,            \* useState: pwd, as last submitted
    effectFor,      \* the password the auth-check effect last ran for
    isClient,       \* useState: isClient
    isAuthed,       \* useState: isAuthed
    isChecking,     \* useState: isChecking
    err,            \* useState: err
    granted,        \* the passwords checked true or submitted, this page load
    submitted,      \* a matching submission was made in this page load
    lostWrite       \* a submission's storage write has failed

uiVars ==
    <<uiVariant, events, mounted, passwordProp, pwd, effectFor, isClient,
      isAuthed, isChecking, err, granted, submitted, lostWrite>>

vars == <<gateVars, verifyVars, pureVars, uiVars>>

\* localStorage.getItem(key): found is FALSE for null.
GetItem(store, key) ==
    IF \E p \in store : p[1] = key
    THEN [found |-> TRUE, value |-> (CHOOSE p \in store : p[1] = key)[2]]
    ELSE [found |-> FALSE, value |-> <<>>]

\* localStorage.setItem(key, value)
SetItemDropped(store, key, value) == store

SetItem(store, key, value) ==
    {p \in store : p[1] # key} \cup {<<key, value>>}

\* stored === value
StrictEqualsKeyOnly(stored, value) == stored.found

StrictEquals(stored, value) == stored.found /\ stored.value = value

BoolStr(b) == IF b THEN "true" ELSE "false"

\* The cache test of readIsAuthed: cached !== undefined
CacheHitOnlyTrue(cached) == cached = "true"

CacheHit(cached) == cached # "undefined"

\* What a completed read stores in the cache: authedCache.set(password, ok)
CacheAfterReadForgets(cache, password, ok) ==
    [cache EXCEPT ![password] = IF ok THEN "true" ELSE "undefined"]

CacheAfterRead(cache, password, ok) == [cache EXCEPT ![password] = BoolStr(ok)]

\* What a completed write stores in the cache: authedCache.set(password, true)
CacheAfterWriteSkipped(cache, password) == cache

CacheAfterWrite(cache, password) == [cache EXCEPT ![password] = "true"]

\* typeof window === "undefined", the first test of both operations.
WindowTestSkipped(window) == FALSE

WindowUndefined(window) == ~window

\* The catch clause of readIsAuthed: return false.  "rejected" stands for a
\* promise that rejects.
ReadCatchRethrows == "rejected"

ReadCatch == "false"

\* The catch clauses of writeAuthed: catch {}, and the function ends.
WriteCatchRethrows == "rejected"

WriteCatch == "void"

\* The password an earlier page lifetime may have authorized: "Aa".
EarlierId == <<65, 97>>

\* The stores a page can find when it loads: empty, or what an earlier page
\* lifetime left after authorizing EarlierId.
InitStores(subtle) ==
    { {}, {<<PairOf(EarlierId, subtle).key, PairOf(EarlierId, subtle).value>>} }

GateInit ==
    /\ hasWindow \in BOOLEAN
    /\ hasSubtle \in BOOLEAN
    /\ hasSubtle => hasWindow
    /\ initStore \in InitStores(hasSubtle)
    /\ localStorage = initStore
    /\ authedCache = [i \in Ids |-> "undefined"]
    /\ pending = <<>>
    /\ returned = {}
    /\ started = 0

\* A writeAuthed(id) has returned with its setItem done.
WrittenBefore(id) ==
    \E r \in returned : r.op = "write" /\ r.id = id /\ r.stored

\* The readIsAuthed(id) calls that have returned: <<result, threw>> of each.
ReadResults(id) ==
    { <<r.result, r.threw>> : r \in {q \in returned : q.op = "read" /\ q.id = id} }

\* A call as it starts, with what was true of the page at that moment.
NewCall(op, id) ==
    [op |-> op, id |-> id, result |-> "pending",
     cachedAtStart |-> authedCache[id],
     afterWrite |-> WrittenBefore(id),
     priorReads |-> ReadResults(id),
     derived |-> FALSE, accessed |-> FALSE, stored |-> FALSE, threw |-> FALSE]

\* The sequence without its c-th element.
Without(q, c) == SubSeq(q, 1, c - 1) \o SubSeq(q, c + 1, Len(q))

\* Awaits resume in start order on the fallback digest path (every await is
\* a microtask of the same depth); crypto.subtle.digest settles in any order.
CanResume(c) ==
    /\ c \in 1..Len(pending)
    /\ hasSubtle \/ c = 1

\* readIsAuthed(password) up to its first await (or its return before it).
StartRead(id) ==
    /\ started < MaxCalls
    /\ started' = started + 1
    /\ LET c == NewCall("read", id)
       IN  IF WindowUndefined(hasWindow)
           THEN /\ returned' = returned \cup {[c EXCEPT !.result = "false"]}
                /\ UNCHANGED pending
           ELSE IF CacheHit(authedCache[id])
           THEN /\ returned' = returned \cup {[c EXCEPT !.result = authedCache[id]]}
                /\ UNCHANGED pending
           ELSE /\ pending' = Append(pending, [c EXCEPT !.derived = TRUE])
                /\ UNCHANGED returned
    /\ UNCHANGED <<hasWindow, hasSubtle, initStore, localStorage, authedCache, verifyVars, pureVars, uiVars>>

\* readIsAuthed(password) from the await to its return.  hashThrows: the
\* derivation rejects; getThrows: localStorage.getItem throws.
ResumeRead(c, hashThrows, getThrows) ==
    /\ CanResume(c)
    /\ pending[c].op = "read"
    /\ hashThrows => hasSubtle
    /\ pending' = Without(pending, c)
    /\ LET call == pending[c]
           pair == PairOf(call.id, hasSubtle)
           ok == StrictEquals(GetItem(localStorage, pair.key), pair.value)
       IN  IF hashThrows
           THEN /\ returned' = returned \cup
                       {[call EXCEPT !.result = ReadCatch, !.threw = TRUE]}
                /\ UNCHANGED authedCache
           ELSE IF getThrows
           THEN /\ returned' = returned \cup
                       {[call EXCEPT !.result = ReadCatch, !.threw = TRUE,
                                     !.accessed = TRUE]}
                /\ UNCHANGED authedCache
           ELSE /\ returned' = returned \cup
                       {[call EXCEPT !.result = BoolStr(ok), !.accessed = TRUE]}
                /\ authedCache' = CacheAfterRead(authedCache, call.id, ok)
    /\ UNCHANGED <<hasWindow, hasSubtle, initStore, localStorage, started, verifyVars, pureVars, uiVars>>

\* writeAuthed(password) up to its first await (or its return before it).
StartWrite(id) ==
    /\ started < MaxCalls
    /\ started' = started + 1
    /\ LET c == NewCall("write", id)
       IN  IF WindowUndefined(hasWindow)
           THEN /\ returned' = returned \cup {[c EXCEPT !.result = "void"]}
                /\ UNCHANGED pending
           ELSE /\ pending' = Append(pending, [c EXCEPT !.derived = TRUE])
                /\ UNCHANGED returned
    /\ UNCHANGED <<hasWindow, hasSubtle, initStore, localStorage, authedCache, verifyVars, pureVars, uiVars>>

\* writeAuthed(password) from the await to its return.  setThrows:
\* localStorage.setItem throws.
ResumeWrite(c, hashThrows, setThrows) ==
    /\ CanResume(c)
    /\ pending[c].op = "write"
    /\ hashThrows => hasSubtle
    /\ pending' = Without(pending, c)
    /\ LET call == pending[c]
           pair == PairOf(call.id, hasSubtle)
       IN  IF hashThrows
           THEN /\ returned' = returned \cup
                       {[call EXCEPT !.result = WriteCatch, !.threw = TRUE]}
                /\ UNCHANGED <<localStorage, authedCache>>
           ELSE IF setThrows
           THEN /\ returned' = returned \cup
                       {[call EXCEPT !.result = WriteCatch, !.threw = TRUE,
                                     !.accessed = TRUE]}
                /\ UNCHANGED <<localStorage, authedCache>>
           ELSE /\ returned' = returned \cup
                       {[call EXCEPT !.result = "void", !.accessed = TRUE,
                                     !.stored = TRUE]}
                /\ localStorage' = SetItem(localStorage, pair.key, pair.value)
                /\ authedCache' = CacheAfterWrite(authedCache, call.id)
    /\ UNCHANGED <<hasWindow, hasSubtle, initStore, started, verifyVars, pureVars, uiVars>>

(***************************************************************************)
(* Part 5.  The configuration (getConfig / setConfig)                      *)
(*                                                                         *)
(* An optional value is a sequence: <<>> is undefined (or an absent key),  *)
(* <<v>> is the value v.                                                   *)
(***************************************************************************)

Undefined == <<>>
Some(v) == <<v>>

\* x ?? d
Nullish(x, d) == IF x = Undefined THEN d ELSE x[1]

DEFAULT_VERIFY_PATH == "/ah-verify"
DEFAULT_VERIFY_TIMEOUT_MS == 8000
DEFAULT_STORAGE_KEY == "ah_authed_v1"

\* The two published shapes of the client: "base" builds the URL from
\* baseUrl and verifyPath, "url" takes verifyUrl as it is.
Variants == {"base", "url"}

ConfigKeys == {"baseUrl", "verifyPath", "verifyUrl", "requestTimeoutMs", "storageKey"}

\* currentConfig as the module is loaded.
InitialConfig(v) ==
    IF v = "base"
    THEN [baseUrl |-> Undefined, verifyPath |-> Some(DEFAULT_VERIFY_PATH),
          verifyUrl |-> Undefined,
          requestTimeoutMs |-> Some(DEFAULT_VERIFY_TIMEOUT_MS),
          storageKey |-> Some(DEFAULT_STORAGE_KEY)]
    ELSE [baseUrl |-> Undefined, verifyPath |-> Undefined,
          verifyUrl |-> Some(""),
          requestTimeoutMs |-> Some(DEFAULT_VERIFY_TIMEOUT_MS),
          storageKey |-> Some(DEFAULT_STORAGE_KEY)]

\* { ...currentConfig, ...config }: every key the argument has replaces the
\* current one, also when it is given as undefined.
MergeConfigReplaces(current, given) ==
    [k \in ConfigKeys |-> IF k \in DOMAIN given THEN given[k] ELSE Undefined]

MergeConfig(current, given) ==
    [k \in ConfigKeys |-> IF k \in DOMAIN given THEN given[k] ELSE current[k]]

(***************************************************************************)
(* Part 6.  The remote verification client (verifyPasswordRemotely)        *)
(***************************************************************************)

\* How many verifyPasswordRemotely calls and setConfig calls one behaviour makes.
MaxVerifyCalls == 2
MaxConfigChanges == 2

\* The base URLs and paths of the model, and whether new URL(path, base)
\* accepts them.
GoodBase == "https://api.example.com"
BadBase == "not a url"
BadPath == "//["
UrlParses(path, base) == base = GoodBase /\ path # BadPath

\* !x for an optional string: undefined and "" are falsy.
Falsy(x) == x = Undefined \/ x = Some("")

\* buildVerifyUrl ("base") or getConfig().verifyUrl ("url"): the URL, or
\* Undefined when there is none.
BuildVerifyUrlUnchecked(v, cfg) ==
    IF v = "url" THEN cfg.verifyUrl
    ELSE IF Falsy(cfg.baseUrl) THEN Undefined
    ELSE Some(<<cfg.baseUrl[1], Nullish(cfg.verifyPath, DEFAULT_VERIFY_PATH)>>)

BuildVerifyUrl(v, cfg) ==
    IF v = "url" THEN cfg.verifyUrl
    ELSE IF Falsy(cfg.baseUrl) THEN Undefined
    ELSE LET verifyPath == Nullish(cfg.verifyPath, DEFAULT_VERIFY_PATH)
         IN  IF UrlParses(verifyPath, cfg.baseUrl[1])
             THEN Some(<<cfg.baseUrl[1], verifyPath>>)
             ELSE Undefined

\* The reason returned when there is no URL.
NoUrlReason(v) == IF v = "base" THEN "NO_BASE_URL" ELSE "NO_URL"

\* The values a rejected fetch can carry.  An AbortError is what fetch
\* rejects with when its signal is aborted; a fetch can also reject with an
\* object of that name on its own (a request the browser or a fetch
\* replacement cancelled), whatever the call's timer and controller did.
AbortError == [isObject |-> TRUE, isNull |-> FALSE, hasName |-> TRUE, name |-> "AbortError"]
NetworkErrors ==
    { AbortError,
      [isObject |-> TRUE, isNull |-> FALSE, hasName |-> TRUE, name |-> "TypeError"],
      [isObject |-> TRUE, isNull |-> FALSE, hasName |-> FALSE, name |-> ""],
      [isObject |-> TRUE, isNull |-> TRUE, hasName |-> FALSE, name |-> ""],
      [isObject |-> FALSE, isNull |-> FALSE, hasName |-> FALSE, name |-> ""] }

\* The catch clause: the reason for a thrown value.
ClassifyNoName(error) ==
    IF error.isObject /\ ~error.isNull THEN "TIMEOUT" ELSE "NETWORK"

Classify(error) ==
    IF /\ error.isObject
       /\ ~error.isNull
       /\ error.hasName
       /\ error.name = "AbortError"
    THEN "TIMEOUT"
    ELSE "NETWORK"

\* The values response.json() can resolve to: type is the JSON type, valid
\* the type of the member `valid` ("undefined" when there is none) and b its
\* value when it is a boolean.
JsonValues ==
    { [type |-> "null", valid |-> "undefined", b |-> FALSE],
      [type |-> "number", valid |-> "undefined", b |-> FALSE],
      [type |-> "string", valid |-> "undefined", b |-> FALSE],
      [type |-> "boolean", valid |-> "undefined", b |-> TRUE],
      [type |-> "array", valid |-> "undefined", b |-> FALSE],
      [type |-> "object", valid |-> "undefined", b |-> FALSE],
      [type |-> "object", valid |-> "string", b |-> FALSE],
      [type |-> "object", valid |-> "number", b |-> FALSE],
      [type |-> "object", valid |-> "object", b |-> FALSE],
      [type |-> "object", valid |-> "boolean", b |-> TRUE],
      [type |-> "object", valid |-> "boolean", b |-> FALSE] }

\* typeof data
TypeOf(data) ==
    IF data.type \in {"null", "array", "object"} THEN "object" ELSE data.type

\* The shape test: the body is a non-null object with a boolean `valid`.
ShapeOkNoNull(data) == TypeOf(data) = "object" /\ data.valid # "undefined"

ShapeOkAnyObject(data) == TypeOf(data) = "object" /\ data.type # "null"

ShapeOk(data) ==
    ~ (\/ TypeOf(data) # "object"
       \/ data.type = "null"
       \/ data.valid # "boolean")

NoTimer == [started |-> FALSE, armed |-> FALSE, fired |-> FALSE, delay |-> 0]
NoResult == [ok |-> FALSE, reason |-> "none"]
NoResponse == [settled |-> "no"]
Failure(reason) == [ok |-> FALSE, reason |-> reason]
\* { ok: true, valid }
SuccessWithReason(valid) == [ok |-> TRUE, valid |-> valid, reason |-> "NETWORK"]

Success(valid) == [ok |-> TRUE, valid |-> valid]

\* RemoteVerifyFailureReason: the six reasons of each client shape.
FailureReasons(v) ==
    {"NO_WINDOW", NoUrlReason(v), "NETWORK", "TIMEOUT", "BAD_STATUS", "BAD_RESPONSE"}

\* The timer callback on the controller: if (controller) controller.abort()
AbortForgotten(ctrl) == ctrl

Abort(ctrl) == IF ctrl = "none" THEN "none" ELSE "aborted"

\* The status test: !response.ok
StatusNeverRejected(statusOk) == FALSE

StatusRejected(statusOk) == ~statusOk

\* window.clearTimeout(timeoutId) in the finally clause.
ClearTimeoutForgotten(t) == t

ClearTimeout(t) == [t EXCEPT !.armed = FALSE]

\* What a returning call does to the authorization cache: nothing, the
\* client names neither authedCache nor localStorage.
CacheAfterVerifyMarked(cache, result) ==
    IF result.ok /\ result.valid THEN [i \in DOMAIN cache |-> "true"] ELSE cache

CacheAfterVerify(cache, result) == cache

\* The outer catch clause takes every thrown value and returns a result, so
\* the call ends "returned"; "rejected" stands for a promise that rejects.
CatchAllMissing(error) == "rejected"

CatchAll(error) == "returned"

\* The calls one behaviour can make, by the order they are started in.
CallIds == 1..MaxVerifyCalls

VerifyInit ==
    /\ variant \in Variants
    /\ hasAbort \in BOOLEAN
    /\ currentConfig = InitialConfig(variant)
    /\ configChanges = <<>>
    /\ vcalls = 0
    /\ vpc = [c \in CallIds |-> "idle"]
    /\ vconfig = [c \in CallIds |-> currentConfig]
    /\ vresult = [c \in CallIds |-> NoResult]
    /\ timer = [c \in CallIds |-> NoTimer]
    /\ controller = [c \in CallIds |-> "none"]
    /\ requests = [c \in CallIds |-> <<>>]
    /\ netPlan = [c \in CallIds |-> "settles"]
    /\ response = [c \in CallIds |-> NoResponse]
    /\ bodyRead = [c \in CallIds |-> FALSE]

\* The partial configurations the model passes to setConfig.
GivenConfigs ==
    { [baseUrl |-> Some(GoodBase)],
      [baseUrl |-> Some(BadBase)],
      [baseUrl |-> Some("")],
      [baseUrl |-> Some(GoodBase), verifyPath |-> Some(BadPath)],
      [baseUrl |-> Some(GoodBase), verifyPath |-> Undefined],
      [baseUrl |-> Some(GoodBase), requestTimeoutMs |-> Undefined],
      [baseUrl |-> Some(GoodBase), requestTimeoutMs |-> Some(50)],
      [verifyUrl |-> Some("/api/ah-verify")],
      [verifyUrl |-> Undefined],
      [verifyUrl |-> Some("/api/ah-verify"), requestTimeoutMs |-> Some(50)],
      [verifyUrl |-> Some("/api/ah-verify"), requestTimeoutMs |-> Undefined],
      [storageKey |-> Some("Aa")],
      [storageKey |-> Undefined] }

\* setConfig(config)
SetConfig(given) ==
    /\ Len(configChanges) < MaxConfigChanges
    /\ configChanges' = Append(configChanges, given)
    /\ currentConfig' = MergeConfig(currentConfig, given)
    /\ UNCHANGED <<variant, hasAbort, vcalls, vpc, vconfig, vresult, timer,
                   controller, requests, netPlan, response, bodyRead, gateVars,
                   pureVars, uiVars>>

\* The request fetch is called with.
Request(url, password) ==
    [url |-> url, method |-> "POST", contentType |-> "application/json",
     body |-> [password |-> password]]

\* verifyPasswordRemotely({password}) up to its await of fetch (or its return
\* before it).  plan: whether the request will settle on its own.  The call
\* has a timer, a controller and a request of its own, whatever other calls
\* are in flight.
VerifyStart(password, plan) ==
    /\ vcalls < MaxVerifyCalls
    /\ vcalls' = vcalls + 1
    /\ LET c == vcalls + 1
           url == BuildVerifyUrl(variant, currentConfig)
           timeoutMs == Nullish(currentConfig.requestTimeoutMs,
                                DEFAULT_VERIFY_TIMEOUT_MS)
       IN  /\ vconfig' = [vconfig EXCEPT ![c] = currentConfig]
           /\ IF ~hasWindow
              THEN /\ vpc' = [vpc EXCEPT ![c] = "returned"]
                   /\ vresult' = [vresult EXCEPT ![c] = Failure("NO_WINDOW")]
                   /\ UNCHANGED <<timer, controller, requests, netPlan>>
              ELSE IF Falsy(url)
              THEN /\ vpc' = [vpc EXCEPT ![c] = "returned"]
                   /\ vresult' = [vresult EXCEPT ![c] = Failure(NoUrlReason(variant))]
                   /\ UNCHANGED <<timer, controller, requests, netPlan>>
              ELSE /\ vpc' = [vpc EXCEPT ![c] = "fetching"]
                   /\ timer' = [timer EXCEPT ![c] =
                                   [started |-> TRUE, armed |-> TRUE,
                                    fired |-> FALSE, delay |-> timeoutMs]]
                   /\ controller' = [controller EXCEPT ![c] =
                                        IF hasAbort THEN "fresh" ELSE "none"]
                   /\ requests' = [requests EXCEPT ![c] =
                                      <<Request(url[1], password)>>]
                   /\ netPlan' = [netPlan EXCEPT ![c] = plan]
                   /\ UNCHANGED vresult
    /\ UNCHANGED <<variant, hasAbort, currentConfig, configChanges, response,
                   bodyRead, gateVars, pureVars, uiVars>>

\* The timer callback of call c: abort its controller when there is one.
TimerFire(c) ==
    /\ timer[c].armed
    /\ timer' = [timer EXCEPT ![c] = [@ EXCEPT !.armed = FALSE, !.fired = TRUE]]
    /\ controller' = [controller EXCEPT ![c] = Abort(@)]
    /\ UNCHANGED <<variant, hasAbort, currentConfig, configChanges, vcalls, vpc,
                   vconfig, vresult, requests, netPlan, response, bodyRead,
                   gateVars, pureVars, uiVars>>

\* The fetch of call c resolves with a response: the status test, then
\* response.json().
FetchResolve(c, statusOk) ==
    /\ vpc[c] = "fetching"
    /\ netPlan[c] = "settles"
    /\ controller[c] # "aborted"
    /\ response' = [response EXCEPT ![c] = [settled |-> "resolved", ok |-> statusOk]]
    /\ IF StatusRejected(statusOk)
       THEN /\ vpc' = [vpc EXCEPT ![c] = "returned"]
            /\ vresult' = [vresult EXCEPT ![c] = Failure("BAD_STATUS")]
            /\ timer' = [timer EXCEPT ![c] = ClearTimeout(@)]
            /\ UNCHANGED bodyRead
       ELSE /\ vpc' = [vpc EXCEPT ![c] = "parsing"]
            /\ bodyRead' = [bodyRead EXCEPT ![c] = TRUE]
            /\ UNCHANGED <<vresult, timer>>
    /\ UNCHANGED <<variant, hasAbort, currentConfig, configChanges, vcalls,
                   vconfig, controller, requests, netPlan, gateVars,
                   pureVars, uiVars>>

\* The fetch of call c rejects on its own, with any value and whatever the
\* timer has done: the outer catch.
FetchReject(c, error) ==
    /\ vpc[c] = "fetching"
    /\ netPlan[c] = "settles"
    /\ response' = [response EXCEPT ![c] = [settled |-> "rejected", error |-> error]]
    /\ vpc' = [vpc EXCEPT ![c] = CatchAll(error)]
    /\ vresult' = [vresult EXCEPT ![c] = Failure(Classify(error))]
    /\ timer' = [timer EXCEPT ![c] = ClearTimeout(@)]
    /\ UNCHANGED <<variant, hasAbort, currentConfig, configChanges, vcalls,
                   vconfig, controller, requests, netPlan, bodyRead, gateVars,
                   pureVars, uiVars>>

\* The fetch of call c rejects because its signal was aborted: the outer
\* catch.
FetchAborted(c) ==
    /\ vpc[c] = "fetching"
    /\ controller[c] = "aborted"
    /\ response' = [response EXCEPT ![c] =
                       [settled |-> "rejected", error |-> AbortError]]
    /\ vpc' = [vpc EXCEPT ![c] = CatchAll(AbortError)]
    /\ vresult' = [vresult EXCEPT ![c] = Failure(Classify(AbortError))]
    /\ timer' = [timer EXCEPT ![c] = ClearTimeout(@)]
    /\ UNCHANGED <<variant, hasAbort, currentConfig, configChanges, vcalls,
                   vconfig, controller, requests, netPlan, bodyRead, gateVars,
                   pureVars, uiVars>>

\* response.json() of call c resolves with data: the shape test and the
\* result.
BodyParsed(c, data) ==
    /\ vpc[c] = "parsing"
    /\ controller[c] # "aborted"
    /\ response' = [response EXCEPT ![c] =
                       [settled |-> "resolved", ok |-> response[c].ok,
                        parsed |-> TRUE, data |-> data]]
    /\ vpc' = [vpc EXCEPT ![c] = "returned"]
    /\ vresult' = [vresult EXCEPT ![c] =
                      IF ShapeOk(data) THEN Success(data.b)
                      ELSE Failure("BAD_RESPONSE")]
    /\ timer' = [timer EXCEPT ![c] = ClearTimeout(@)]
    /\ authedCache' = CacheAfterVerify(authedCache, vresult'[c])
    /\ UNCHANGED <<variant, hasAbort, currentConfig, configChanges, vcalls,
                   vconfig, controller, requests, netPlan, bodyRead, hasWindow,
                   hasSubtle, initStore, localStorage, pending, returned, started,
                   pureVars, uiVars>>

\* response.json() of call c rejects (the body is no JSON, or the read was
\* aborted): the inner catch.
BodyFails(c) ==
    /\ vpc[c] = "parsing"
    /\ response' = [response EXCEPT ![c] =
                       [settled |-> "resolved", ok |-> response[c].ok,
                        parsed |-> FALSE,
                        data |-> [type |-> "null", valid |-> "undefined",
                                  b |-> FALSE]]]
    /\ vpc' = [vpc EXCEPT ![c] = "returned"]
    /\ vresult' = [vresult EXCEPT ![c] = Failure("BAD_RESPONSE")]
    /\ timer' = [timer EXCEPT ![c] = ClearTimeout(@)]
    /\ UNCHANGED <<variant, hasAbort, currentConfig, configChanges, vcalls,
                   vconfig, controller, requests, netPlan, bodyRead, gateVars,
                   pureVars, uiVars>>

(***************************************************************************)
(* Part 6b.  The local persistence gate, configured-identifier variant     *)
(*                                                                         *)
(* readIsAuthed() and writeAuthed() take no argument: the identifier is    *)
(* getConfig().storageKey ?? DEFAULT_STORAGE_KEY, read when the call       *)
(* starts, and authedCache is one slot ("undefined", "true" or "false")    *)
(* for the whole page.                                                     *)
(***************************************************************************)

\* The storage keys of the model as character codes: "Aa", "aBtjifj" (the
\* fallback key of "Aa" with another value) and the default "ah_authed_v1".
StorageKeys == {"Aa", "aBtjifj", DEFAULT_STORAGE_KEY}

Codes(str) ==
    IF str = "Aa" THEN <<65, 97>>
    ELSE IF str = "aBtjifj" THEN <<97, 66, 116, 106, 105, 102, 106>>
    ELSE <<97, 104, 95, 97, 117, 116, 104, 101, 100, 95, 118, 49>>

\* The derived pairs of the model's storage keys, computed once.
SlotPairTable ==
    { <<s, k, GetAuthKeyAndValue(Codes(k), s)>> : s \in BOOLEAN, k \in StorageKeys }

SlotPairOf(k, s) == (CHOOSE t \in SlotPairTable : t[1] = s /\ t[2] = k)[3]

\* getStorageIdentifier: getConfig().storageKey ?? DEFAULT_STORAGE_KEY
GetStorageIdentifier(cfg) == Nullish(cfg.storageKey, DEFAULT_STORAGE_KEY)

\* The partial configurations the page passes to setConfig.
SlotConfigs ==
    { [storageKey |-> Some("Aa")],
      [storageKey |-> Some("aBtjifj")],
      [storageKey |-> Undefined] }

\* What the slot holds after a completed read and after a completed write.
SlotAfterRead(ok) == BoolStr(ok)
SlotAfterWrite == "true"

\* A call as it starts, with what was true of the page at that moment.
NewSlotCall(op, id) ==
    [op |-> op, id |-> id, result |-> "pending",
     cachedAtStart |-> authedCache,
     afterWrite |-> WrittenBefore(id),
     priorReads |-> ReadResults(id),
     derived |-> FALSE, accessed |-> FALSE, stored |-> FALSE, threw |-> FALSE]

SlotInit ==
    /\ hasWindow \in BOOLEAN
    /\ hasSubtle \in BOOLEAN
    /\ hasSubtle => hasWindow
    /\ initStore \in { {}, {<<SlotPairOf(DEFAULT_STORAGE_KEY, hasSubtle).key,
                              SlotPairOf(DEFAULT_STORAGE_KEY, hasSubtle).value>>} }
    /\ localStorage = initStore
    /\ authedCache = "undefined"
    /\ pending = <<>>
    /\ returned = {}
    /\ started = 0

\* readIsAuthed() up to its first await (or its return before it).
StartReadSlot ==
    /\ started < MaxCalls
    /\ started' = started + 1
    /\ LET c == NewSlotCall("read", GetStorageIdentifier(currentConfig))
       IN  IF WindowUndefined(hasWindow)
           THEN /\ returned' = returned \cup {[c EXCEPT !.result = "false"]}
                /\ UNCHANGED pending
           ELSE IF CacheHit(authedCache)
           THEN /\ returned' = returned \cup {[c EXCEPT !.result = authedCache]}
                /\ UNCHANGED pending
           ELSE /\ pending' = Append(pending, [c EXCEPT !.derived = TRUE])
                /\ UNCHANGED returned
    /\ UNCHANGED <<hasWindow, hasSubtle, initStore, localStorage, authedCache, verifyVars, pureVars, uiVars>>

\* readIsAuthed() from the await to its return.
ResumeReadSlot(c, hashThrows, getThrows) ==
    /\ CanResume(c)
    /\ pending[c].op = "read"
    /\ hashThrows => hasSubtle
    /\ pending' = Without(pending, c)
    /\ LET call == pending[c]
           pair == SlotPairOf(call.id, hasSubtle)
           ok == StrictEquals(GetItem(localStorage, pair.key), pair.value)
       IN  IF hashThrows
           THEN /\ returned' = returned \cup
                       {[call EXCEPT !.result = ReadCatch, !.threw = TRUE]}
                /\ UNCHANGED authedCache
           ELSE IF getThrows
           THEN /\ returned' = returned \cup
                       {[call EXCEPT !.result = ReadCatch, !.threw = TRUE,
                                     !.accessed = TRUE]}
                /\ UNCHANGED authedCache
           ELSE /\ returned' = returned \cup
                       {[call EXCEPT !.result = BoolStr(ok), !.accessed = TRUE]}
                /\ authedCache' = SlotAfterRead(ok)
    /\ UNCHANGED <<hasWindow, hasSubtle, initStore, localStorage, started, verifyVars, pureVars, uiVars>>

\* writeAuthed() up to its first await (or its return before it).
StartWriteSlot ==
    /\ started < MaxCalls
    /\ started' = started + 1
    /\ LET c == NewSlotCall("write", GetStorageIdentifier(currentConfig))
       IN  IF WindowUndefined(hasWindow)
           THEN /\ returned' = returned \cup {[c EXCEPT !.result = "void"]}
                /\ UNCHANGED pending
           ELSE /\ pending' = Append(pending, [c EXCEPT !.derived = TRUE])
                /\ UNCHANGED returned
    /\ UNCHANGED <<hasWindow, hasSubtle, initStore, localStorage, authedCache, verifyVars, pureVars, uiVars>>

\* writeAuthed() from the await to its return.
ResumeWriteSlot(c, hashThrows, setThrows) ==
    /\ CanResume(c)
    /\ pending[c].op = "write"
    /\ hashThrows => hasSubtle
    /\ pending' = Without(pending, c)
    /\ LET call == pending[c]
           pair == SlotPairOf(call.id, hasSubtle)
       IN  IF hashThrows
           THEN /\ returned' = returned \cup
                       {[call EXCEPT !.result = WriteCatch, !.threw = TRUE]}
                /\ UNCHANGED <<localStorage, authedCache>>
           ELSE IF setThrows
           THEN /\ returned' = returned \cup
                       {[call EXCEPT !.result = WriteCatch, !.threw = TRUE,
                                     !.accessed = TRUE]}
                /\ UNCHANGED <<localStorage, authedCache>>
           ELSE /\ returned' = returned \cup
                       {[call EXCEPT !.result = "void", !.accessed = TRUE,
                                     !.stored = TRUE]}
                /\ localStorage' = SetItem(localStorage, pair.key, pair.value)
                /\ authedCache' = SlotAfterWrite
    /\ UNCHANGED <<hasWindow, hasSubtle, initStore, started, verifyVars, pureVars, uiVars>>

(***************************************************************************)
(* Part 6c.  hashString and getAuthKeyAndValue called on their own         *)
(***************************************************************************)

\* The strings of at most n characters over the alphabet.
RECURSIVE Strings(_, _)
Strings(alphabet, n) ==
    IF n = 0 THEN {<<>>}
    ELSE LET shorter == Strings(alphabet, n - 1)
         IN  shorter \cup {Append(x, c) : x \in shorter, c \in alphabet}

\* The arguments of hashString: up to MaxInputLen code units, among them
\* the smallest and the largest a string can hold.
MaxInputLen == 5
HashAlphabet == {0, 97, 65535}
HashInputs == Strings(HashAlphabet, MaxInputLen)

\* The arguments of getAuthKeyAndValue: up to MaxIdLen code units, with one,
\* two and three bytes in UTF-8, and the two halves of a surrogate pair
\* (U+1F600), which come together as four bytes and alone as U+FFFD.
MaxIdLen == 2
IdAlphabet == {97, 233, 8364, 55357, 56832}
Identifiers == Strings(IdAlphabet, MaxIdLen)

\* How many times getAuthKeyAndValue is called for the identifier.
MaxDerives == 2

\* No hashString or getAuthKeyAndValue call of its own.
PureIdle ==
    /\ hashInput = <<>>
    /\ hashOutput = Undefined
    /\ identifier = <<>>
    /\ pairs = <<>>

\* Whether hashString takes the crypto.subtle branch:
\* !(typeof window === "undefined" || !window.crypto?.subtle)
UsesSubtle == hasWindow /\ hasSubtle

\* await hashString(hashInput)
HashCall ==
    /\ hashOutput = Undefined
    /\ hashOutput' = Some(HashString(hashInput, UsesSubtle))
    /\ UNCHANGED <<hashInput, identifier, pairs, gateVars, verifyVars, uiVars>>

\* await getAuthKeyAndValue(identifier)
DeriveCall ==
    /\ Len(pairs) < MaxDerives
    /\ pairs' = Append(pairs, GetAuthKeyAndValue(identifier, UsesSubtle))
    /\ UNCHANGED <<hashInput, hashOutput, identifier, gateVars, verifyVars, uiVars>>

(***************************************************************************)
(* Part 6d.  The AccessHood component (src/AccessHood.tsx)                 *)
(*                                                                         *)
(* One component on the page, over the Map-cache gate.  A render, the      *)
(* effects React runs after it, a form submission, and each asynchronous   *)
(* continuation are steps of their own.  `pending` holds the component's   *)
(* suspended continuations: an auth check awaiting readIsAuthed, or a      *)
(* handleSubmit awaiting writeAuthed, each with the password it closed     *)
(* over, its `cancelled` flag, and `early`: the answer the gate call had   *)
(* before any digest (a cached entry, or no window), "none" when the call  *)
(* is awaiting getAuthKeyAndValue.                                         *)
(***************************************************************************)

\* The two shapes of the component: without and with the isChecking flag.
UiVariants == {"plain", "checking"}

\* How many mounts, prop changes, submissions, unmounts and page loads.
MaxUiEvents == 4

AUTH_FAILED_MESSAGE == "Incorrect password. Please try again."

\* useState(() => getCachedIsAuthed(password) === true)
InitialIsAuthed(cache, p) == cache[p] = "true"

\* useState(() => getCachedIsAuthed(password) === undefined); the plain
\* shape has no such flag, which reads as never checking.
InitialIsChecking(v, cache, p) == v = "checking" /\ cache[p] = "undefined"

\* useState(false) or useState(typeof window !== "undefined")
InitialIsClient(v, win) == v = "checking" /\ win

\* What the render returns from the flags.
RenderOf(v, client, authed, checking) ==
    IF client /\ authed THEN "children"
    ELSE IF client /\ (v = "plain" \/ ~checking) THEN "form"
    ELSE "null"

Renders ==
    IF mounted THEN RenderOf(uiVariant, isClient, isAuthed, isChecking)
    ELSE "unmounted"

\* The effect's cleanup: cancelled = true, seen by the check it started.
Cancel(tasks) ==
    [k \in 1..Len(tasks) |->
        IF tasks[k].kind = "check" THEN [tasks[k] EXCEPT !.cancelled = TRUE]
        ELSE tasks[k]]

\* A component that is gone: its state setters do nothing any more.
Detach(tasks) == [k \in 1..Len(tasks) |-> [tasks[k] EXCEPT !.cancelled = TRUE]]

\* The comparison of handleSubmit, passing everything.
SubmitMatchesAlways(input, p) == TRUE

\* pwd === password
SubmitMatches(input, p) == input = p

\* handleSubmit after its await, granting only what was stored.
SubmitSettlesOnlyStored(threw) == ~threw

\* setIsAuthed(true), in the try and in the catch of handleSubmit alike.
SubmitSettles(threw) == TRUE

\* A continuation that only microtasks keep from running: the gate call had
\* its answer at once, or without crypto.subtle every await of the gate is a
\* microtask.
Immediate(task) == ~hasSubtle \/ task.early # "none"

\* Callbacks run to completion: such a continuation ends before the next
\* event and before any digest resolves.
Drained == \A k \in 1..Len(pending) : ~Immediate(pending[k])

\* The continuation at place k can go on now.
TaskCanResume(k) ==
    /\ k \in 1..Len(pending)
    /\ IF Immediate(pending[k])
       THEN \A j \in 1..(k - 1) : ~Immediate(pending[j])
       ELSE Drained

\* No component on the page.
UiIdle ==
    /\ uiVariant = "plain"
    /\ events = 0
    /\ mounted = FALSE
    /\ passwordProp = <<>>
    /\ pwd = <<>>
    /\ effectFor = Undefined
    /\ isClient = FALSE
    /\ isAuthed = FALSE
    /\ isChecking = FALSE
    /\ err = ""
    /\ granted = {}
    /\ submitted = FALSE
    /\ lostWrite = FALSE

\* A page load with either shape of the component, not yet mounted.
UiInit ==
    /\ hasWindow \in BOOLEAN
    /\ hasSubtle \in BOOLEAN
    /\ hasSubtle => hasWindow
    /\ initStore \in InitStores(hasSubtle)
    /\ localStorage = initStore
    /\ authedCache = [i \in Ids |-> "undefined"]
    /\ pending = <<>>
    /\ returned = {}
    /\ started = 0
    /\ uiVariant \in UiVariants
    /\ events = 0
    /\ mounted = FALSE
    /\ passwordProp = <<>>
    /\ pwd = <<>>
    /\ effectFor = Undefined
    /\ isClient = FALSE
    /\ isAuthed = FALSE
    /\ isChecking = FALSE
    /\ err = ""
    /\ granted = {}
    /\ submitted = FALSE
    /\ lostWrite = FALSE

\* The first render of <AccessHood password={p}>: the state initialisers.
Mount(p) ==
    /\ ~mounted
    /\ Drained
    /\ events < MaxUiEvents
    /\ events' = events + 1
    /\ mounted' = TRUE
    /\ passwordProp' = p
    /\ pwd' = <<>>
    /\ err' = ""
    /\ effectFor' = Undefined
    /\ isAuthed' = InitialIsAuthed(authedCache, p)
    /\ isChecking' = InitialIsChecking(uiVariant, authedCache, p)
    /\ isClient' = InitialIsClient(uiVariant, hasWindow)
    /\ UNCHANGED <<uiVariant, submitted, granted, lostWrite, gateVars, verifyVars, pureVars>>

\* The parent renders the component again with another password: the
\* state is kept, and this render's effects have not run yet (those of the
\* render before have: React flushes them before it renders again).
PropChange(p) ==
    /\ mounted
    /\ Drained
    /\ effectFor = Some(passwordProp)
    /\ p # passwordProp
    /\ events < MaxUiEvents
    /\ events' = events + 1
    /\ passwordProp' = p
    /\ UNCHANGED <<uiVariant, submitted, mounted, pwd, effectFor, isClient, isAuthed,
                   isChecking, err, granted, lostWrite, gateVars, verifyVars,
                   pureVars>>

\* React runs the effects of the last render: the cleanup of the previous
\* auth check, setIsClient(true) (in the checking shape only where there is
\* a window), and the auth check for the password of that render, up to its
\* await.  The checking shape looks into the cache itself and applies a
\* cached answer at once; the plain shape always awaits readIsAuthed.
FlushEffect ==
    /\ mounted
    /\ Drained
    /\ effectFor # Some(passwordProp)
    /\ effectFor' = Some(passwordProp)
    /\ isClient' = IF uiVariant = "plain" THEN TRUE ELSE (isClient \/ hasWindow)
    /\ LET cached == authedCache[passwordProp]
           tasks == Cancel(pending)
       IN  IF WindowUndefined(hasWindow)
           THEN /\ pending' = tasks
                /\ UNCHANGED <<isAuthed, isChecking>>
           ELSE IF uiVariant = "plain"
           THEN /\ pending' = Append(tasks,
                       [kind |-> "check", password |-> passwordProp,
                        cancelled |-> FALSE,
                        early |-> IF CacheHit(cached) THEN cached ELSE "none"])
                /\ UNCHANGED <<isAuthed, isChecking>>
           ELSE IF CacheHit(cached)
           THEN /\ isAuthed' = (cached = "true")
                /\ isChecking' = FALSE
                /\ pending' = tasks
           ELSE /\ isChecking' = TRUE
                /\ pending' = Append(tasks,
                       [kind |-> "check", password |-> passwordProp,
                        cancelled |-> FALSE, early |-> "none"])
                /\ UNCHANGED isAuthed
    /\ UNCHANGED <<uiVariant, submitted, events, mounted, passwordProp, pwd, err,
                   granted, lostWrite, hasWindow, hasSubtle, initStore,
                   localStorage, authedCache, returned, started, verifyVars,
                   pureVars>>

\* The auth check resumes: readIsAuthed returns (its cached answer, or what
\* it finds in the store after the digests), then
\* if (!cancelled) setIsAuthed(ok), and in the checking shape
\* if (!cancelled) setIsChecking(false).
CheckResume(k, hashThrows, getThrows) ==
    /\ TaskCanResume(k)
    /\ pending[k].kind = "check"
    /\ hashThrows => hasSubtle
    /\ pending[k].early # "none" => (~hashThrows /\ ~getThrows)
    /\ pending' = Without(pending, k)
    /\ LET task == pending[k]
           pair == PairOf(task.password, hasSubtle)
           threw == hashThrows \/ getThrows
           ok == IF task.early # "none" THEN task.early = "true"
                 ELSE IF threw THEN ReadCatch = "true"
                 ELSE StrictEquals(GetItem(localStorage, pair.key), pair.value)
       IN  /\ authedCache' = IF threw \/ task.early # "none" THEN authedCache
                             ELSE CacheAfterRead(authedCache, task.password, ok)
           /\ granted' = IF ok THEN granted \cup {task.password} ELSE granted
           /\ IF task.cancelled
              THEN UNCHANGED <<isAuthed, isChecking>>
              ELSE /\ isAuthed' = ok
                   /\ isChecking' = FALSE
    /\ UNCHANGED <<uiVariant, submitted, events, mounted, passwordProp, pwd,
                   effectFor, isClient, err, lostWrite, hasWindow, hasSubtle,
                   initStore, localStorage, returned, started, verifyVars,
                   pureVars>>

\* The user types `input` and submits the form: handleSubmit up to its
\* await of writeAuthed, or its setErr.
Submit(input) ==
    /\ Renders = "form"
    /\ Drained
    /\ events < MaxUiEvents
    /\ events' = events + 1
    /\ pwd' = input
    /\ IF SubmitMatches(input, passwordProp)
       THEN /\ pending' = Append(pending,
                   [kind |-> "submit", password |-> passwordProp,
                    cancelled |-> FALSE,
                    early |-> IF WindowUndefined(hasWindow) THEN "void"
                              ELSE "none"])
            /\ granted' = granted \cup {passwordProp}
            /\ submitted' = TRUE
            /\ UNCHANGED err
       ELSE /\ err' = AUTH_FAILED_MESSAGE
            /\ UNCHANGED <<pending, granted, submitted>>
    /\ UNCHANGED <<uiVariant, mounted, passwordProp, effectFor, isClient, isAuthed,
                   isChecking, lostWrite, hasWindow, hasSubtle, initStore,
                   localStorage, authedCache, returned, started, verifyVars,
                   pureVars>>

\* handleSubmit resumes: writeAuthed returns (at once without a window, or
\* after the digests, having stored the pair or swallowed its failure), then
\* setIsAuthed(true).
SubmitResume(k, hashThrows, setThrows) ==
    /\ TaskCanResume(k)
    /\ pending[k].kind = "submit"
    /\ hashThrows => hasSubtle
    /\ pending[k].early # "none" => (~hashThrows /\ ~setThrows)
    /\ pending' = Without(pending, k)
    /\ LET task == pending[k]
           pair == PairOf(task.password, hasSubtle)
           threw == hashThrows \/ setThrows
       IN  /\ IF threw \/ task.early # "none"
              THEN UNCHANGED <<localStorage, authedCache>>
              ELSE /\ localStorage' = SetItem(localStorage, pair.key, pair.value)
                   /\ authedCache' = CacheAfterWrite(authedCache, task.password)
           /\ lostWrite' = (lostWrite \/ threw)
           /\ isAuthed' = IF task.cancelled THEN isAuthed
                          ELSE SubmitSettles(threw)
    /\ UNCHANGED <<uiVariant, submitted, events, mounted, passwordProp, pwd,
                   effectFor, isClient, isChecking, err, granted, hasWindow,
                   hasSubtle, initStore, returned, started, verifyVars, pureVars>>

\* The component unmounts: its cleanup runs and its state is dropped.
Unmount ==
    /\ mounted
    /\ Drained
    /\ events < MaxUiEvents
    /\ events' = events + 1
    /\ mounted' = FALSE
    /\ pending' = Detach(pending)
    /\ passwordProp' = <<>>
    /\ pwd' = <<>>
    /\ effectFor' = Undefined
    /\ isClient' = FALSE
    /\ isAuthed' = FALSE
    /\ isChecking' = FALSE
    /\ err' = ""
    /\ UNCHANGED <<uiVariant, submitted, granted, lostWrite, hasWindow, hasSubtle,
                   initStore, localStorage, authedCache, returned, started,
                   verifyVars, pureVars>>

\* The page is loaded again: the module's cache and every callback are
\* gone, localStorage stays.
Reload ==
    /\ events < MaxUiEvents
    /\ events > 0
    /\ events' = events + 1
    /\ mounted' = FALSE
    /\ pending' = <<>>
    /\ authedCache' = [i \in Ids |-> "undefined"]
    /\ granted' = {}
    /\ submitted' = FALSE
    /\ passwordProp' = <<>>
    /\ pwd' = <<>>
    /\ effectFor' = Undefined
    /\ isClient' = FALSE
    /\ isAuthed' = FALSE
    /\ isChecking' = FALSE
    /\ err' = ""
    /\ UNCHANGED <<uiVariant, lostWrite, hasWindow, hasSubtle, initStore,
                   localStorage, returned, started, verifyVars, pureVars>>


(***************************************************************************)
(* Part 7.  The specifications                                             *)
(***************************************************************************)

\* The gate at rest, for the behaviours of the client alone.
GateIdle ==
    /\ hasSubtle = FALSE
    /\ initStore = {}
    /\ localStorage = {}
    /\ authedCache = [i \in Ids |-> "undefined"]
    /\ pending = <<>>
    /\ returned = {}
    /\ started = 0

\* The client at rest, for the behaviours of the gate alone.
VerifyIdle ==
    /\ VerifyInit
    /\ variant = "url"
    /\ hasAbort

\* The persistence gate: any readIsAuthed / writeAuthed calls, interleaved
\* at their awaits.
Init == GateInit /\ VerifyIdle /\ PureIdle /\ UiIdle

Next ==
    \/ \E id \in Ids : StartRead(id)
    \/ \E id \in Ids : StartWrite(id)
    \/ \E c \in 1..MaxCalls, hashThrows \in BOOLEAN, getThrows \in BOOLEAN :
           ResumeRead(c, hashThrows, getThrows)
    \/ \E c \in 1..MaxCalls, hashThrows \in BOOLEAN, setThrows \in BOOLEAN :
           ResumeWrite(c, hashThrows, setThrows)

Spec == Init /\ [][Next]_vars

\* The verification client: setConfig and verifyPasswordRemotely calls, with
\* the timer, the network and the body read as the environment.
Passwords == {"secret"}

InitVerify == VerifyInit /\ hasWindow \in BOOLEAN /\ GateIdle /\ PureIdle /\ UiIdle

NextVerify ==
    \/ \E given \in GivenConfigs : SetConfig(given)
    \/ \E password \in Passwords, plan \in {"settles", "never"} :
           VerifyStart(password, plan)
    \/ \E c \in CallIds : TimerFire(c)
    \/ \E c \in CallIds, statusOk \in BOOLEAN : FetchResolve(c, statusOk)
    \/ \E c \in CallIds, error \in NetworkErrors : FetchReject(c, error)
    \/ \E c \in CallIds : FetchAborted(c)
    \/ \E c \in CallIds, data \in JsonValues : BodyParsed(c, data)
    \/ \E c \in CallIds : BodyFails(c)

SpecVerify == InitVerify /\ [][NextVerify]_vars

\* The same with the scheduling the event loop gives: an armed timer fires,
\* and a fetch whose signal is aborted rejects.
SpecVerifyFair ==
    /\ SpecVerify
    /\ \A c \in CallIds : WF_vars(TimerFire(c))
    /\ \A c \in CallIds : WF_vars(FetchAborted(c))

\* The whole core: the gate and the client on one page, their calls
\* interleaved at their awaits.  The page has called setConfig once, with
\* one of CoreConfigs, before anything else.
MaxCoreCalls == 2

CoreConfigs ==
    { [baseUrl |-> Some(GoodBase)],
      [verifyUrl |-> Some("/api/ah-verify"), requestTimeoutMs |-> Some(50)] }

\* The bodies and the rejections the network gives in these behaviours:
\* {"valid": true}, {"valid": false} and null; a TypeError and a thrown
\* value that is no object.
CoreBodies ==
    { d \in JsonValues : d.valid = "boolean" \/ d.type = "null" }

CoreErrors == { e \in NetworkErrors : e.name = "TypeError" \/ ~e.isObject }

InitCore ==
    /\ GateInit
    /\ PureIdle
    /\ UiIdle
    /\ variant \in Variants
    /\ hasAbort \in BOOLEAN
    /\ \E given \in CoreConfigs :
          /\ configChanges = <<given>>
          /\ currentConfig = MergeConfig(InitialConfig(variant), given)
    /\ vcalls = 0
    /\ vpc = [c \in CallIds |-> "idle"]
    /\ vconfig = [c \in CallIds |-> currentConfig]
    /\ vresult = [c \in CallIds |-> NoResult]
    /\ timer = [c \in CallIds |-> NoTimer]
    /\ controller = [c \in CallIds |-> "none"]
    /\ requests = [c \in CallIds |-> <<>>]
    /\ netPlan = [c \in CallIds |-> "settles"]
    /\ response = [c \in CallIds |-> NoResponse]
    /\ bodyRead = [c \in CallIds |-> FALSE]

NextCore ==
    \/ \E id \in Ids : started < MaxCoreCalls /\ StartRead(id)
    \/ \E id \in Ids : started < MaxCoreCalls /\ StartWrite(id)
    \/ \E c \in 1..MaxCoreCalls, hashThrows \in BOOLEAN, getThrows \in BOOLEAN :
           ResumeRead(c, hashThrows, getThrows)
    \/ \E c \in 1..MaxCoreCalls, hashThrows \in BOOLEAN, setThrows \in BOOLEAN :
           ResumeWrite(c, hashThrows, setThrows)
    \/ \E password \in Passwords, plan \in {"settles", "never"} :
           VerifyStart(password, plan)
    \/ \E c \in CallIds : TimerFire(c)
    \/ \E c \in CallIds, statusOk \in BOOLEAN : FetchResolve(c, statusOk)
    \/ \E c \in CallIds, error \in CoreErrors : FetchReject(c, error)
    \/ \E c \in CallIds : FetchAborted(c)
    \/ \E c \in CallIds, data \in CoreBodies : BodyParsed(c, data)
    \/ \E c \in CallIds : BodyFails(c)

SpecCore == InitCore /\ [][NextCore]_vars

\* The configured-identifier gate: setConfig, readIsAuthed() and
\* writeAuthed() calls, interleaved at their awaits.
InitSlot == SlotInit /\ VerifyIdle /\ PureIdle /\ UiIdle

NextSlot ==
    \/ \E given \in SlotConfigs : SetConfig(given)
    \/ StartReadSlot
    \/ StartWriteSlot
    \/ \E c \in 1..MaxCalls, hashThrows \in BOOLEAN, getThrows \in BOOLEAN :
           ResumeReadSlot(c, hashThrows, getThrows)
    \/ \E c \in 1..MaxCalls, hashThrows \in BOOLEAN, setThrows \in BOOLEAN :
           ResumeWriteSlot(c, hashThrows, setThrows)

SpecSlot == InitSlot /\ [][NextSlot]_vars

\* The runtimes of a call made on its own: no window, a window without
\* crypto.subtle, a window with it; nothing else on the page has run.
RuntimeInit ==
    /\ hasWindow \in BOOLEAN
    /\ hasSubtle \in BOOLEAN
    /\ hasSubtle => hasWindow
    /\ initStore = {}
    /\ localStorage = {}
    /\ authedCache = [i \in Ids |-> "undefined"]
    /\ pending = <<>>
    /\ returned = {}
    /\ started = 0
    /\ VerifyIdle
    /\ UiIdle

\* hashString called once, on the fallback branch.
InitHash ==
    /\ RuntimeInit
    /\ ~hasSubtle
    /\ hashInput \in HashInputs
    /\ hashOutput = Undefined
    /\ identifier = <<>>
    /\ pairs = <<>>

NextHash == HashCall

SpecHash == InitHash /\ [][NextHash]_vars

\* getAuthKeyAndValue called repeatedly for one identifier.
InitDerive ==
    /\ RuntimeInit
    /\ hashInput = <<>>
    /\ hashOutput = Undefined
    /\ identifier \in Identifiers
    /\ pairs = <<>>

NextDerive == DeriveCall

SpecDerive == InitDerive /\ [][NextDerive]_vars

\* The component over the gate: mounts, renders with another password,
\* effects, submissions, unmounts and page loads, interleaved with the
\* continuations of the checks and submissions in flight.
InitHood == UiInit /\ VerifyIdle /\ PureIdle

NextHood ==
    \/ \E p \in Ids : Mount(p)
    \/ \E p \in Ids : PropChange(p)
    \/ FlushEffect
    \/ \E k \in 1..MaxUiEvents, h, g \in BOOLEAN : CheckResume(k, h, g)
    \/ \E input \in Ids : Submit(input)
    \/ \E k \in 1..MaxUiEvents, h, g \in BOOLEAN : SubmitResume(k, h, g)
    \/ Unmount
    \/ Reload

SpecHood == InitHood /\ [][NextHood]_vars

(***************************************************************************)
(* Part 8.  The claims                                                     *)
(***************************************************************************)

Reads == {r \in returned : r.op = "read"}
StoredWrites == {w \in returned : w.op = "write" /\ w.stored}

\* The derived pair of id in the runtime of this behaviour.
PairNow(id) == PairOf(id, hasSubtle)
SameKey(i, j) == PairNow(i).key = PairNow(j).key
SamePair(i, j) == PairNow(i) = PairNow(j)

\* writeAuthed was called for id (whether or not it has returned).
WriteCalled(id) ==
    \/ \E w \in returned : w.op = "write" /\ w.id = id
    \/ \E k \in 1..Len(pending) : pending[k].op = "write" /\ pending[k].id = id

KeyInitially(id) == \E p \in initStore : p[1] = PairNow(id).key

\* C1 as stated: every readIsAuthed(id) started after a writeAuthed(id) that
\* stored its pair returns true.
C1_ReadYourWrites ==
    \A r \in Reads : r.afterWrite => r.result = "true"

\* C1, amended: every readIsAuthed(id) started after a writeAuthed(id) that
\* stored its pair returns true, provided no writeAuthed has stored, for
\* another identifier, a different value under the derived key of id.
C1_ReadYourWritesNoClash ==
    \A r \in Reads :
        (/\ r.afterWrite
         /\ \A w \in StoredWrites : SameKey(w.id, r.id) => SamePair(w.id, r.id))
        => r.result = "true"

\* A read that returned true from the cache after a write, where an earlier
\* read of the same password had returned false.
C1_Witness ==
    \E r \in Reads :
        /\ r.afterWrite
        /\ r.result = "true"
        /\ <<"false", FALSE>> \in r.priorReads

\* C2 as stated: readIsAuthed(id) returns false for every id that was never
\* written and whose derived key was not in the store initially.
C2_FailClosed ==
    \A r \in Reads :
        (~WriteCalled(r.id) /\ ~KeyInitially(r.id)) => r.result = "false"

\* C2, amended: readIsAuthed(id) returns false for every id that was never
\* written, whose derived key was not in the store initially, and whose
\* derived key and value are not both those of an identifier writeAuthed
\* was called for.
C2_FailClosedNoTwin ==
    \A r \in Reads :
        (/\ ~WriteCalled(r.id)
         /\ ~KeyInitially(r.id)
         /\ \A i \in Ids : WriteCalled(i) => ~SamePair(i, r.id))
        => r.result = "false"

\* A read of a never-written password that looked into the store, found the
\* value another password had stored under the same key, and returned false.
C2_Witness ==
    \E r \in Reads :
        /\ ~WriteCalled(r.id)
        /\ ~KeyInitially(r.id)
        /\ r.accessed /\ ~r.threw
        /\ r.result = "false"
        /\ \E w \in StoredWrites : SameKey(w.id, r.id)

\* C3 as stated: a readIsAuthed(id) started after another one has returned
\* returns that one's result, without key derivation or localStorage access.
C3_ShortCircuit ==
    \A r \in Reads :
        r.priorReads # {} =>
            /\ \A p \in r.priorReads : p[1] = r.result
            /\ ~r.derived
            /\ ~r.accessed

\* C3, amended: a readIsAuthed(id) started after another one has returned
\* without a hashing or storage error does no key derivation and no
\* localStorage access, and returns the value the cache holds for id (false
\* when there is no window).
C3_ShortCircuitCached ==
    \A r \in Reads :
        (\E p \in r.priorReads : ~p[2]) =>
            /\ ~r.derived
            /\ ~r.accessed
            /\ IF hasWindow
               THEN CacheHit(r.cachedAtStart) /\ r.result = r.cachedAtStart
               ELSE r.result = "false"

\* A second read answered from the cache with the result of the first.
C3_Witness ==
    \E r \in Reads :
        /\ hasWindow
        /\ r.priorReads = {<<r.result, FALSE>>}
        /\ ~r.derived
        /\ ~r.accessed

Returned(c) == vpc[c] = "returned"
Timeout == Failure("TIMEOUT")

\* C4 as stated: a call whose request never settles on its own eventually
\* returns TIMEOUT.
C4_TimeoutLiveness ==
    \A c \in CallIds :
        (vpc[c] = "fetching" /\ netPlan[c] = "never")
            ~> (Returned(c) /\ vresult[c] = Timeout)

\* C4, amended: where AbortController exists, a call whose request never
\* settles on its own eventually returns TIMEOUT.
C4_TimeoutLivenessWithAbort ==
    \A c \in CallIds :
        (vpc[c] = "fetching" /\ netPlan[c] = "never" /\ hasAbort)
            ~> (Returned(c) /\ vresult[c] = Timeout)

\* A call whose request never settled has returned TIMEOUT after its timer fired.
C4_Witness ==
    \E c \in CallIds :
        Returned(c) /\ netPlan[c] = "never" /\ timer[c].fired /\ vresult[c] = Timeout

\* Whether the configuration a call found names a usable URL, spelled out
\* per client shape.
UrlConfigured(v, cfg) ==
    IF v = "url"
    THEN cfg.verifyUrl # Undefined /\ cfg.verifyUrl # Some("")
    ELSE /\ cfg.baseUrl # Undefined
         /\ cfg.baseUrl # Some("")
         /\ cfg.baseUrl[1] # BadBase
         /\ cfg.verifyPath # Some(BadPath)

\* C5: without a window the call returns NO_WINDOW; with a window and no
\* usable URL it returns NO_BASE_URL / NO_URL; in both cases it has issued
\* no request and started no timer.
C5_PreconditionExits ==
    \A c \in CallIds :
        Returned(c) =>
            /\ ~hasWindow =>
                  /\ vresult[c] = Failure("NO_WINDOW")
                  /\ requests[c] = <<>>
                  /\ ~timer[c].started
            /\ (hasWindow /\ ~UrlConfigured(variant, vconfig[c])) =>
                  /\ vresult[c] =
                        Failure(IF variant = "base" THEN "NO_BASE_URL" ELSE "NO_URL")
                  /\ requests[c] = <<>>
                  /\ ~timer[c].started

\* A call that returned NO_BASE_URL because new URL rejected the path.
C5_Witness ==
    \E c \in CallIds :
        /\ Returned(c)
        /\ hasWindow
        /\ variant = "base"
        /\ vconfig[c].baseUrl = Some(GoodBase)
        /\ vconfig[c].verifyPath = Some(BadPath)
        /\ vresult[c] = Failure("NO_BASE_URL")

\* C6: once a call has returned, its timer cannot fire any more.
C6_NoLeakedTimer == \A c \in CallIds : Returned(c) => ~timer[c].armed

\* A call that returned before its timer fired.
C6_Witness == \E c \in CallIds : Returned(c) /\ timer[c].started /\ ~timer[c].fired

\* C7 as stated: a rejected fetch gives TIMEOUT when the rejection is the
\* abort of the call's own timer and NETWORK otherwise; TIMEOUT is only
\* returned by a call whose timer has fired.
C7_RejectionClass ==
    \A c \in CallIds :
        Returned(c) =>
            /\ response[c].settled = "rejected" =>
                  vresult[c] = Failure(IF controller[c] = "aborted" /\ timer[c].fired
                                       THEN "TIMEOUT" ELSE "NETWORK")
            /\ vresult[c] = Timeout => timer[c].fired

\* The thrown value is a non-null object whose name is "AbortError".
NamedAbort(error) ==
    error.isObject /\ ~error.isNull /\ error.hasName /\ error.name = "AbortError"

\* C7, amended: a rejected fetch gives TIMEOUT when the value it rejected
\* with is a non-null object named AbortError, whatever the call's timer
\* did, and NETWORK for every other value; TIMEOUT is only returned for
\* such a rejection.
C7_RejectionByName ==
    \A c \in CallIds :
        Returned(c) =>
            /\ response[c].settled = "rejected" =>
                  vresult[c] = Failure(IF NamedAbort(response[c].error)
                                       THEN "TIMEOUT" ELSE "NETWORK")
            /\ vresult[c] = Timeout =>
                  /\ response[c].settled = "rejected"
                  /\ NamedAbort(response[c].error)

\* One call returned TIMEOUT for an AbortError although its timer has not
\* fired, and another returned NETWORK for a TypeError after its timer had
\* fired.
C7_Witness ==
    \E c \in CallIds, d \in CallIds :
        /\ Returned(c)
        /\ response[c].settled = "rejected"
        /\ response[c].error = AbortError
        /\ ~timer[c].fired
        /\ vresult[c] = Timeout
        /\ Returned(d)
        /\ response[d].settled = "rejected"
        /\ response[d].error.name = "TypeError"
        /\ timer[d].fired
        /\ vresult[d] = Failure("NETWORK")

\* The body is a non-null object with a boolean `valid`.
GoodBody(data) == data.type = "object" /\ data.valid = "boolean"

\* C8: the call returns {ok: true, valid: b} exactly when fetch resolved with
\* an ok status and the body parsed to a non-null object whose `valid` is the
\* boolean b.
C8_SuccessIff ==
    \A c \in CallIds :
        Returned(c) =>
            /\ vresult[c].ok <=>
                  /\ response[c].settled = "resolved"
                  /\ response[c].ok
                  /\ response[c].parsed
                  /\ GoodBody(response[c].data)
            /\ vresult[c].ok => vresult[c].valid = response[c].data.b

\* A call that returned {ok: true, valid: false}.
C8_Witness == \E c \in CallIds : Returned(c) /\ vresult[c] = Success(FALSE)

\* C9: with an ok status, a body that fails to parse or is no non-null object
\* with a boolean `valid` gives BAD_RESPONSE.
C9_BadResponse ==
    \A c \in CallIds :
        (/\ Returned(c)
         /\ response[c].settled = "resolved"
         /\ response[c].ok
         /\ ~response[c].parsed \/ ~GoodBody(response[c].data))
        => vresult[c] = Failure("BAD_RESPONSE")

\* The body {"ok": true}: an object without `valid`.
C9_Witness ==
    \E c \in CallIds :
        /\ Returned(c)
        /\ response[c].settled = "resolved"
        /\ response[c].ok
        /\ response[c].parsed
        /\ response[c].data = [type |-> "object", valid |-> "undefined", b |-> FALSE]
        /\ vresult[c] = Failure("BAD_RESPONSE")

\* C10: a status that is not ok gives BAD_STATUS, and the body is not read.
C10_BadStatus ==
    \A c \in CallIds :
        (Returned(c) /\ response[c].settled = "resolved" /\ ~response[c].ok)
        => (vresult[c] = Failure("BAD_STATUS") /\ ~bodyRead[c])

\* A call that returned BAD_STATUS.
C10_Witness ==
    \E c \in CallIds :
        /\ Returned(c)
        /\ response[c].settled = "resolved"
        /\ ~response[c].ok
        /\ vresult[c] = Failure("BAD_STATUS")

\* C11: a call issues at most one request, and the result it returns is
\* either {ok: true, valid} with a boolean valid or {ok: false, reason} with
\* one of the six reasons, never a mix of the two shapes.
C11_SingleOutcome ==
    \A c \in CallIds :
        /\ Len(requests[c]) <= 1
        /\ Returned(c) =>
              \/ /\ DOMAIN vresult[c] = {"ok", "valid"}
                 /\ vresult[c].ok
                 /\ vresult[c].valid \in BOOLEAN
              \/ /\ DOMAIN vresult[c] = {"ok", "reason"}
                 /\ ~vresult[c].ok
                 /\ vresult[c].reason \in FailureReasons(variant)

\* A second call has returned {ok: true, valid} after its one request,
\* while the first call, with a request of its own, is still awaiting fetch.
C11_Witness ==
    /\ vcalls = 2
    /\ Returned(2)
    /\ Len(requests[2]) = 1
    /\ DOMAIN vresult[2] = {"ok", "valid"}
    /\ vresult[2].ok
    /\ vpc[1] = "fetching"
    /\ Len(requests[1]) = 1

\* The calls that return in the step.
NewlyReturned == returned' \ returned

\* C12: a readIsAuthed call whose key derivation or localStorage.getItem
\* throws resolves to false, does not reject, and its step leaves the
\* authorization cache as it was.
C12_ReadFailsClosed ==
    [][\A r \in NewlyReturned :
           (r.op = "read" /\ r.threw)
           => (r.result = "false" /\ authedCache' = authedCache)]_vars

\* Both kinds of failing read have returned false: one whose derivation
\* threw, and one whose getItem threw while the store held its pair.
C12_Witness ==
    /\ \E r \in Reads : r.threw /\ ~r.accessed /\ r.result = "false"
    /\ \E r \in Reads :
          /\ r.threw
          /\ r.accessed
          /\ r.result = "false"
          /\ <<PairNow(r.id).key, PairNow(r.id).value>> \in localStorage
          /\ authedCache[r.id] = "undefined"

\* C13: a writeAuthed call whose key derivation or localStorage.setItem
\* throws resolves normally and its step leaves the authorization cache as
\* it was; a writeAuthed step sets the cache entry to authorized only with
\* its pair stored by setItem in the same step.
C13_WriteFailure ==
    [][\A w \in NewlyReturned :
           w.op = "write"
           => /\ w.threw => (w.result = "void" /\ authedCache' = authedCache)
              /\ authedCache' # authedCache
                   => /\ w.stored
                      /\ ~w.threw
                      /\ <<PairNow(w.id).key, PairNow(w.id).value>> \in localStorage'
                      /\ authedCache' = [authedCache EXCEPT ![w.id] = "true"]]_vars

\* Three writes have returned: one whose derivation threw, one whose
\* setItem threw, both leaving the cache entry unknown and the store
\* without the pair, and one that stored its pair and set the cache.
C13_Witness ==
    /\ \E w \in returned :
          /\ w.op = "write" /\ w.threw /\ ~w.accessed /\ w.result = "void"
          /\ authedCache[w.id] = "undefined"
    /\ \E w \in returned :
          /\ w.op = "write" /\ w.threw /\ w.accessed /\ w.result = "void"
          /\ authedCache[w.id] = "undefined"
          /\ <<PairNow(w.id).key, PairNow(w.id).value>> \notin localStorage
    /\ \E w \in StoredWrites : authedCache[w.id] = "true"

\* C16: without a window, every readIsAuthed returns false and every
\* writeAuthed returns at once; no call derives a key or touches the store,
\* and the store and the authorization cache stay as the page found them.
C16_NoWindow ==
    ~hasWindow =>
        /\ \A r \in returned :
              /\ r.result = IF r.op = "read" THEN "false" ELSE "void"
              /\ ~r.derived
              /\ ~r.accessed
              /\ ~r.stored
        /\ pending = <<>>
        /\ localStorage = initStore
        /\ authedCache = [i \in Ids |-> "undefined"]

\* Without a window, a writeAuthed and then a readIsAuthed of the same
\* password have returned, over a store that holds the pair of the password.
C16_Witness ==
    /\ ~hasWindow
    /\ \E w \in returned, r \in Reads :
          /\ w.op = "write"
          /\ r.id = w.id
          /\ r.result = "false"
          /\ <<PairNow(r.id).key, PairNow(r.id).value>> \in localStorage

\* The documented defaults, and an option as its consumer reads it (x ?? d
\* for the three options that have a default).
HasDefault(k) == k \in {"requestTimeoutMs", "storageKey", "verifyPath"}
DocumentedDefault(k) ==
    IF k = "storageKey" THEN Some(DEFAULT_STORAGE_KEY)
    ELSE IF k = "verifyPath" THEN Some(DEFAULT_VERIFY_PATH)
    ELSE Some(DEFAULT_VERIFY_TIMEOUT_MS)
Defaulted(k, x) == IF HasDefault(k) /\ x = Undefined THEN DocumentedDefault(k) ELSE x
ReadBack(k) == Defaulted(k, currentConfig[k])

\* The setConfig calls that provided option k, by their position.
Providers(k) == {n \in 1..Len(configChanges) : k \in DOMAIN configChanges[n]}
LastProvider(k) == CHOOSE n \in Providers(k) : \A m \in Providers(k) : m <= n

\* C18: every option reads back as the value of the most recent setConfig
\* call that had the option (its default when the value is undefined), and
\* as it was when the module loaded if no call had it: the documented default
\* for the options that have one.
C18_SetConfigMerge ==
    \A k \in ConfigKeys :
        IF Providers(k) = {}
        THEN /\ ReadBack(k) = Defaulted(k, InitialConfig(variant)[k])
             /\ (HasDefault(k) /\ (k = "verifyPath" => variant = "base"))
                    => currentConfig[k] = DocumentedDefault(k)
        ELSE ReadBack(k) = Defaulted(k, configChanges[LastProvider(k)][k])

\* Two setConfig calls were made: the first gave requestTimeoutMs 50, the
\* second left it out, and the option still reads 50; baseUrl or verifyUrl
\* reads as the second call gave it.
C18_Witness ==
    /\ Len(configChanges) = 2
    /\ "requestTimeoutMs" \in DOMAIN configChanges[1]
    /\ configChanges[1].requestTimeoutMs = Some(50)
    /\ "requestTimeoutMs" \notin DOMAIN configChanges[2]
    /\ ReadBack("requestTimeoutMs") = Some(50)
    /\ \E k \in {"baseUrl", "verifyUrl", "storageKey"} :
          /\ k \in DOMAIN configChanges[1]
          /\ k \in DOMAIN configChanges[2]
          /\ configChanges[1][k] # configChanges[2][k]
          /\ currentConfig[k] = configChanges[2][k]

\* The call that resumes in the step is the k-th suspended one.
Resumes(k) == k \in 1..Len(pending) /\ pending' = Without(pending, k)

\* The store holds the derived pair of id.
Holds(store, id) == <<PairNow(id).key, PairNow(id).value>> \in store

\* C14: a step of verifyPasswordRemotely (or of setConfig) leaves the
\* authorization cache and the store as they were, whatever the call
\* returns; the store changes only in the step of a writeAuthed, which
\* stores its pair, and a cache entry becomes authorized only in such a step
\* or in the step of a readIsAuthed that found the pair in the store.
C14_VerifyLeavesGate ==
    [][/\ verifyVars' # verifyVars
            => (authedCache' = authedCache /\ localStorage' = localStorage)
       /\ localStorage' # localStorage
            => \E k \in 1..Len(pending) :
                   /\ Resumes(k)
                   /\ pending[k].op = "write"
                   /\ Holds(localStorage', pending[k].id)
       /\ \A i \in Ids :
            (authedCache'[i] = "true" /\ authedCache[i] # "true")
            => \E k \in 1..Len(pending) :
                   /\ Resumes(k)
                   /\ pending[k].id = i
                   /\ \/ pending[k].op = "write" /\ Holds(localStorage', i)
                      \/ pending[k].op = "read" /\ Holds(localStorage, i)]_vars

\* A call has returned {ok: true, valid: true} on a page whose store is
\* empty and whose cache has no authorized entry, and a readIsAuthed that
\* looked into the store has returned false.
C14_Witness ==
    /\ \E c \in CallIds : Returned(c) /\ vresult[c] = Success(TRUE)
    /\ localStorage = {}
    /\ \A i \in Ids : authedCache[i] # "true"
    /\ \E r \in Reads : r.result = "false" /\ r.accessed

\* C15: no promise of the core rejects: every readIsAuthed that returned
\* resolved to true or false, every writeAuthed resolved to undefined, and a
\* verifyPasswordRemotely call that ended returned a result.
C15_NeverRejects ==
    /\ \A r \in returned :
          IF r.op = "read" THEN r.result \in {"true", "false"} ELSE r.result = "void"
    /\ \A c \in CallIds :
          /\ vpc[c] \in {"idle", "fetching", "parsing", "returned"}
          /\ Returned(c) =>
                (vresult[c] \in {Success(TRUE), Success(FALSE)}
                 \/ vresult[c] \in {Failure(x) : x \in FailureReasons(variant)})

\* A readIsAuthed and a writeAuthed whose store access threw have resolved,
\* and a verifyPasswordRemotely whose fetch rejected with a value that is no
\* object has returned NETWORK.
C15_Witness ==
    /\ \E r \in Reads : r.threw /\ r.result = "false"
    /\ \E w \in returned : w.op = "write" /\ w.threw /\ w.result = "void"
    /\ \E c \in CallIds :
          /\ Returned(c)
          /\ response[c].settled = "rejected"
          /\ ~response[c].error.isObject
          /\ vresult[c] = Failure("NETWORK")

\* C17 as stated: in the configured-identifier variant, every readIsAuthed()
\* started after a writeAuthed() that stored its pair, with the same
\* storageKey configured at both calls, returns true.
C17_SlotReadYourWrites ==
    \A r \in Reads : r.afterWrite => r.result = "true"

\* The text of the claim, spelled out: the namespaces, the separator, the
\* two prefixes of the pair, and "the first n characters" of a string.
KeyNamespace == <<107, 101, 121, 58>>
ValNamespace == <<118, 97, 108, 58>>
Colon == <<58>>
KeyPrefix == <<107, 95>>
ValPrefix == <<118, 95>>
FirstChars(str, n) == [i \in 1..(IF Len(str) < n THEN Len(str) ELSE n) |-> str[i]]
Digest(str) == HashString(str, UsesSubtle)

\* C19: every pair getAuthKeyAndValue returned for the identifier has
\* key = "k_" + the first 24 characters of digest("key:" + id + ":" + SALT)
\* and value = "v_" + the first 16 characters of digest("val:" + id + ":" +
\* SALT), and all the pairs returned for it are the same.
C19_Derivation ==
    pairs # <<>> =>
        LET key == KeyPrefix \o
                   FirstChars(Digest(KeyNamespace \o identifier \o Colon \o STORAGE_SALT), 24)
            value == ValPrefix \o
                     FirstChars(Digest(ValNamespace \o identifier \o Colon \o STORAGE_SALT), 16)
        IN  \A n \in 1..Len(pairs) :
                /\ pairs[n].key = key
                /\ pairs[n].value = value
                /\ pairs[n] = pairs[1]

\* getAuthKeyAndValue has returned twice for the identifier "\u20AC\u00E9"
\* with crypto.subtle: the key is "k_6e8d4d57240352153d80ee12" and the value
\* "v_6857db448de3780c".
C19_Witness ==
    /\ Len(pairs) = 2
    /\ hasSubtle
    /\ identifier = <<8364, 233>>
    /\ pairs[2].key =
          <<107, 95>> \o <<54, 101, 56, 100, 52, 100, 53, 55, 50, 52, 48, 51>>
             \o <<53, 50, 49, 53, 51, 100, 56, 48, 101, 101, 49, 50>>
    /\ pairs[2].value =
          <<118, 95>> \o <<54, 56, 53, 55, 100, 98, 52, 52, 56, 100, 101, 51, 55, 56, 48, 99>>

\* The rolling hash on eight hexadecimal digits, most significant first:
\* digits * 31 + carry, the carry out of the first digit dropped (mod 2^32).
RECURSIVE RefStep(_, _, _)
RefStep(digits, i, carry) ==
    IF i = 0 THEN digits
    ELSE LET t == digits[i] * 31 + carry
         IN  RefStep([digits EXCEPT ![i] = t % 16], i - 1, t \div 16)

RECURSIVE RefRoll(_, _, _)
RefRoll(input, i, digits) ==
    IF i > Len(input) THEN digits
    ELSE RefRoll(input, i + 1, RefStep(digits, 8, input[i]))

LowerHex == <<48, 49, 50, 51, 52, 53, 54, 55, 56, 57, 97, 98, 99, 100, 101, 102>>

\* C20: on the fallback branch hashString(input) is the rolling hash
\* acc = (acc * 31 + charCode) mod 2^32 from acc = 0 over the code units of
\* the input, as exactly 8 lowercase hex characters, zero-padded.
C20_FallbackDigest ==
    (hashOutput # Undefined /\ ~UsesSubtle) =>
        LET acc == RefRoll(hashInput, 1, <<0, 0, 0, 0, 0, 0, 0, 0>>)
        IN  /\ Len(hashOutput[1]) = 8
            /\ hashOutput[1] = [i \in 1..8 |-> LowerHex[acc[i] + 1]]

\* hashString has returned "8fb2703f" for five code units 65535, an input
\* whose accumulator wraps around 2^32.
C20_Witness ==
    /\ hashOutput # Undefined
    /\ ~UsesSubtle
    /\ hashInput = <<65535, 65535, 65535, 65535, 65535>>
    /\ hashOutput[1] = <<56, 102, 98, 50, 55, 48, 51, 102>>

\* C21 as stated: a call during which the timer fired (while fetch was
\* pending or while the body was being read) returns TIMEOUT.
C21_TimerAlwaysTimeout ==
    \A c \in CallIds : (Returned(c) /\ timer[c].fired) => vresult[c] = Timeout

\* The store holds the derived pair of the storage key.
SlotHolds(store, key) ==
    <<SlotPairOf(key, hasSubtle).key, SlotPairOf(key, hasSubtle).value>> \in store

\* C22 as stated: in the configured-identifier variant, when a
\* readIsAuthed() returns true the store holds the derived pair of the
\* storage identifier configured at that moment.
C22_SlotTrueMeansStored ==
    [][\A r \in NewlyReturned :
           (r.op = "read" /\ r.result = "true")
           => SlotHolds(localStorage', GetStorageIdentifier(currentConfig'))]_vars

\* C23 as stated: a cache entry that is known never returns to unknown, and
\* one that is true never becomes false.
C23_CacheMonotone ==
    [][\A i \in Ids :
           /\ authedCache[i] # "undefined" => authedCache'[i] # "undefined"
           /\ authedCache[i] = "true" => authedCache'[i] = "true"]_vars

\* C23, amended: a cache entry that is known never returns to unknown, and
\* one that is true never becomes false while the store holds the derived
\* value of the identifier under its derived key.
C23_CacheMonotoneWhileStored ==
    [][\A i \in Ids :
           /\ authedCache[i] # "undefined" => authedCache'[i] # "undefined"
           /\ (authedCache[i] = "true" /\ Holds(localStorage, i))
                => authedCache'[i] = "true"]_vars

\* On a page that found an empty store, a readIsAuthed that started before
\* any writeAuthed of its password had returned came back from the store
\* with true, after the write had set the entry, and the entry is true.
C23_Witness ==
    /\ initStore = {}
    /\ \E r \in Reads :
          /\ ~r.afterWrite
          /\ r.accessed
          /\ r.result = "true"
          /\ authedCache[r.id] = "true"
          /\ \E w \in StoredWrites : w.id = r.id

\* C24 as stated: when the cache records an identifier as authorized, the
\* store holds the derived value of the identifier under its derived key.
C24_CacheAgreesWithStore ==
    \A i \in Ids : authedCache[i] = "true" => Holds(localStorage, i)

\* C24, amended: when the cache records an identifier as authorized, the
\* store has an entry under its derived key, and the entry is its derived
\* value unless a writeAuthed for another identifier with the same derived
\* key and another derived value has stored there.
C24_CacheAgreesUnlessClash ==
    \A i \in Ids :
        authedCache[i] = "true" =>
            /\ GetItem(localStorage, PairNow(i).key).found
            /\ \/ Holds(localStorage, i)
               \/ \E w \in StoredWrites : SameKey(w.id, i) /\ ~SamePair(w.id, i)

\* On a page that found an empty store, two passwords with different
\* derived keys are recorded as authorized and the store holds both pairs.
C24_Witness ==
    /\ initStore = {}
    /\ \E i \in Ids, j \in Ids :
          /\ ~SameKey(i, j)
          /\ authedCache[i] = "true"
          /\ authedCache[j] = "true"
          /\ Holds(localStorage, i)
          /\ Holds(localStorage, j)

\* C25: whenever the component renders the children, the password prop of
\* that render is authorized: a check found its pair in the store, or the
\* user submitted exactly that password, in this page load.
C25_ChildrenOnlyAuthorized == Renders = "children" => passwordProp \in granted

\* A step in which the user submits the form.
Submits ==
    /\ events' = events + 1
    /\ mounted /\ mounted'
    /\ passwordProp' = passwordProp

\* C26: a submission whose input differs from the password prop sets the
\* error to the incorrect-password message and changes neither isAuthed nor
\* the cache nor localStorage, and starts no write.
C26_RejectedSubmission ==
    [][(Submits /\ pwd' # passwordProp)
          => /\ err' = AUTH_FAILED_MESSAGE
             /\ isAuthed' = isAuthed
             /\ authedCache' = authedCache
             /\ localStorage' = localStorage
             /\ pending' = pending]_vars

\* A wrong input was submitted: the form shows the message, nothing else
\* has moved.
C26_Witness ==
    /\ Renders = "form"
    /\ pwd # <<>>
    /\ pwd # passwordProp
    /\ err = AUTH_FAILED_MESSAGE
    /\ pending = <<>>
    /\ ~submitted
    /\ localStorage = {}
    /\ authedCache[passwordProp] = "false"

\* A step in which the handleSubmit at place k of a mounted component
\* goes on after its await of writeAuthed.
Settles(k) ==
    /\ k \in 1..Len(pending)
    /\ pending[k].kind = "submit"
    /\ ~pending[k].cancelled
    /\ events' = events
    /\ pending' = Without(pending, k)

\* The component has nothing left to run for the render on screen.
Settled ==
    /\ mounted
    /\ hasWindow
    /\ effectFor = Some(passwordProp)
    /\ pending = <<>>

\* C27: when the handleSubmit of a matching submission goes on after
\* writeAuthed, isAuthed becomes true, also when the write failed; a failed
\* write leaves localStorage and the cache as they were; and in a page load
\* without a matching submission, a component at rest whose password has no
\* pair in localStorage shows the form.
C27_FailOpenOnSubmit ==
    /\ [][/\ \A k \in 1..MaxUiEvents : Settles(k) => isAuthed'
          /\ (lostWrite' /\ ~lostWrite)
                => /\ localStorage' = localStorage
                   /\ authedCache' = authedCache]_vars
    /\ []((Settled /\ ~submitted /\ ~Holds(localStorage, passwordProp))
             => Renders = "form")

\* After a submission whose write failed, the page was loaded again and the
\* component, at rest, shows the form for the same password.
C27_Witness ==
    /\ lostWrite
    /\ ~submitted
    /\ Settled
    /\ localStorage = {}
    /\ Renders = "form"

\* A step in which the auth check at place k goes on after its await of
\* readIsAuthed.
Checks(k) ==
    /\ k \in 1..Len(pending)
    /\ pending[k].kind = "check"
    /\ events' = events
    /\ pending' = Without(pending, k)

\* C28: a check that was started for another password than the password
\* prop of the render on screen changes neither isAuthed nor isChecking
\* when its readIsAuthed resolves.
C28_StaleCheckNeverApplied ==
    [][\A k \in 1..MaxUiEvents :
          (Checks(k) /\ mounted /\ pending[k].password # passwordProp)
             => /\ isAuthed' = isAuthed
                /\ isChecking' = isChecking]_vars

\* C29: a component with the isChecking flag whose password prop the cache
\* records as authorized does not render the form: it renders the children
\* or nothing.
C29_NoFormOnceCached ==
    (mounted /\ uiVariant = "checking" /\ authedCache[passwordProp] = "true")
        => Renders \in {"children", "null"}

=============================================================================
